---------------------------- MODULE Spec2Model ----------------------------
(***************************************************************************)
(* Snipchat: the client-side realtime synchronizers (messages, receipts,  *)
(* typing status, conversation list, call signalling) together with the   *)
(* backend tables and change feeds they talk to.                           *)
(*                                                                         *)
(* Each synchronizer has a specification of its own (SpecMsg, SpecSeen,    *)
(* SpecSeenBy, SpecTyping, SpecConv, SpecList, SpecCall, SpecOpen,        *)
(* SpecStop, SpecName, SpecCreate, SpecSwitch, SpecAuth); the variables of *)
(* the other synchronizers are held at their initial value by that         *)
(* specification.                                                          *)
(***************************************************************************)
EXTENDS Integers, Sequences, FiniteSets, TLC

VARIABLES
    \* ---- backend tables
    dbMessages,      \* messages of the open conversation: set of [id, sender_id, created_at]
    dbReceipts,      \* message_receipts: set of <<message_id, user_id>>
    \* ---- message synchronizer (ChatMessageArea / useChatMessages), client of Me
    messages,        \* useState<Message[]>: sequence of message records
    msgFetch,        \* in-flight fetchMessages calls: sequence of fetch records
    msgFeed,         \* INSERT notifications on their way to the client (FIFO)
    markPending,     \* in-flight markMessagesAsSeen inserts: sequence of id sets
    lastReceiptError,\* `error` of the last completed message_receipts insert
    toast,           \* last user-visible toast of each client
    \* ---- MessageBubble
    bubble,          \* props of one MessageBubble and the seenByAll it rendered
    \* ---- typing status (ChatMessageArea), client of Me
    now,             \* the clock, in ms
    dbTyping,        \* typing_status rows of the conversation: set of [user_id, last_typed_at]
    typingFeed,      \* typing_status notifications on their way to the client (FIFO)
    typingUsers,     \* useState<Profile[]>: sequence of user ids
    typingTimeoutRef,\* useRef<Map<string, Timeout>>: set of [user_id, due]
    \* ---- conversation list (ChatApp), client of Me
    chatApp,         \* which of the two ChatApp components of ChatApp.tsx runs
    dbConversations, \* conversations Me participates in: set of conversation rows
    conversations,   \* useState<SupabaseConversation[]>: sequence of rows
    selectedConversationId,
    isLoadingConversations,
    convFetch,       \* in-flight fetchConversations calls, each with the
                     \* selectedConversationId its closure captured
    convFeed,        \* conversations notifications on their way to the client
    convDelete,      \* the in-flight handleDeleteConversation, or NoDelete
    \* ---- call signalling (CallProvider), one client per user of CallClients
    callParticipants,\* conversation_participants of the conversation of the calls
    dbCalls,         \* table calls of the one conversation: set of call rows
    activeCall,      \* useState<Call | null> of each client
    incomingCall,    \* useState<Call | null> of each client
    callFeed,        \* channel public:calls: notifications on their way to each client
    callOp,          \* the startCall/acceptCall/declineCall/endCall each client awaits
    lookups,         \* the checkParticipant calls in flight
    callToast,       \* the last showError/showSuccess of each CallProvider
    callRequests,    \* startCall/acceptCall/declineCall/endCall calls made so far
    callNotices,     \* the termination toasts each CallProvider raised, in order:
                     \* sequence of [id, text]
    \* ---- the message synchronizer across conversation switches, client of Me
    synchronizer,    \* which one is mounted: ChatMessageArea or useChatMessages
    mounted,
    openConversationId, \* the conversation id the synchronizer was rendered with
    store,           \* table messages: each message of MessagePool absent, stored
                     \* or deleted
    localMessages,   \* useState<Message[]>: sequence of message rows
    isLoadingMessages,
    openFetch,       \* in-flight fetchMessages calls, each with the conversation
                     \* id its closure captured
    subscriptions,   \* the channels the client holds open
    openFeed,        \* notifications on their way to the handlers of the channels
    handled,         \* how many times the handlers ran for each table change
    effectRuns,      \* runs of the subscription effect so far
    \* ---- creating a direct conversation and naming it on each side
    profiles,        \* table profiles: first_name and last_name of each user
    groupName,       \* the group name field of NewConversationDialog
    createdConversation, \* the conversation the dialog stored, or NoConversation
    displayNames,    \* what each participant's client rendered for it
    \* ---- the new chat dialog of ChatSidebar, client of Me
    newChat,         \* the handleCreateNewChat in flight, or NoNewChat
    \* ---- the session store (useAuth / SessionContextProvider)
    authSession,     \* the session the auth client holds: a user id or Null
    authUser,        \* useState<User | null>
    authIsLoading,   \* useState(true)
    authGet,         \* the getSession call of the effect: [status, session]
    authFeed,        \* auth state changes on their way to the listener (FIFO)
    lastAuthEvent    \* the event the listener handled last, or Null

msgVars == <<dbMessages, dbReceipts, messages, msgFetch, msgFeed, markPending,
             lastReceiptError, toast>>

typingVars == <<now, dbTyping, typingFeed, typingUsers, typingTimeoutRef>>

convVars == <<chatApp, dbConversations, conversations, selectedConversationId,
              isLoadingConversations, convFetch, convFeed, convDelete>>

callVars == <<callParticipants, dbCalls, activeCall, incomingCall, callFeed, callOp, lookups, callToast,
              callRequests, callNotices>>

openVars == <<synchronizer, mounted, openConversationId, store, localMessages,
              isLoadingMessages, openFetch, subscriptions, openFeed, handled, effectRuns>>

nameVars == <<profiles, groupName, createdConversation, displayNames>>

authVars == <<authSession, authUser, authIsLoading, authGet, authFeed, lastAuthEvent>>

vars == <<msgVars, bubble, typingVars, convVars, callVars, openVars, nameVars,
          newChat, authVars>>

\* what the steps of one synchronizer leave alone: the state of the others
outsideMsg == <<bubble, typingVars, convVars, callVars, openVars, nameVars, newChat, authVars>>
outsideBubble == <<msgVars, typingVars, convVars, callVars, openVars, nameVars, newChat, authVars>>
outsideTyping == <<msgVars, bubble, convVars, callVars, openVars, nameVars, newChat, authVars>>
outsideConv == <<msgVars, bubble, typingVars, callVars, openVars, nameVars, newChat, authVars>>
outsideCall == <<msgVars, bubble, typingVars, convVars, openVars, nameVars, newChat, authVars>>

-----------------------------------------------------------------------------
(* Bounds *)
MaxMessages == 3
MaxTime == 3

Users == {"u1", "u2", "u3"}
Me == "u1"
Null == "null"

NoToast == "none"

-----------------------------------------------------------------------------
(* The state of each synchronizer before it is mounted *)

MsgIdle ==
    /\ dbMessages = {}
    /\ dbReceipts = {}
    /\ messages = <<>>
    /\ msgFetch = <<>>
    /\ msgFeed = <<>>
    /\ markPending = <<>>
    /\ lastReceiptError = Null
    /\ toast = [u \in Users |-> NoToast]

\* MessageBubble's message_receipts is optional: hasReceipts is whether the
\* message carries it
NoBubble == [currentUser |-> Me, sender_id |-> Me, hasReceipts |-> FALSE,
             message_receipts |-> {}, conversationParticipants |-> {},
             rendered |-> FALSE, seenByAll |-> FALSE]

BubbleIdle == bubble = NoBubble

TypingIdle ==
    /\ now = 0
    /\ dbTyping = {}
    /\ typingFeed = <<>>
    /\ typingUsers = <<>>
    /\ typingTimeoutRef = {}

NoDelete == [status |-> "none", id |-> Null]

ConvIdle ==
    /\ chatApp = "first"
    /\ dbConversations = {}
    /\ conversations = <<>>
    /\ selectedConversationId = Null
    /\ isLoadingConversations = FALSE
    /\ convFetch = <<>>
    /\ convFeed = <<>>
    /\ convDelete = NoDelete

MessagePool == {"m1", "m2"}

\* a change of table messages: the row and the event
TableChanges == MessagePool \X {"INSERT", "DELETE"}

OpenIdle ==
    /\ synchronizer = "none"
    /\ mounted = FALSE
    /\ openConversationId = Null
    /\ store = [m \in MessagePool |-> "absent"]
    /\ localMessages = <<>>
    /\ isLoadingMessages = FALSE
    /\ openFetch = <<>>
    /\ subscriptions = {}
    /\ openFeed = <<>>
    /\ handled = [e \in TableChanges |-> 0]
    /\ effectRuns = 0

\* a text is a sequence of characters; NullText is SQL NULL / undefined
NullText == <<"NULL">>

\* the first_name and last_name values of a profile (string | null)
NameValues == {NullText, <<>>, <<" ">>, <<"a">>, <<"b">>}

NoConversation == [id |-> Null, name |-> NullText, conversation_participants |-> {}]

NotRendered == [title |-> NullText, item |-> NullText]

NameVarsIdle ==
    /\ profiles = [u \in Users |-> [first_name |-> NullText, last_name |-> NullText]]
    /\ groupName = <<>>
    /\ createdConversation = NoConversation
    /\ displayNames = [u \in Users |-> NotRendered]

NoNewChat == [stage |-> "none", id |-> Null]

NewChatIdle == newChat = NoNewChat

NoGetSession == [status |-> "none", session |-> Null]

AuthIdle ==
    /\ authSession = Null
    /\ authUser = Null
    /\ authIsLoading = TRUE
    /\ authGet = NoGetSession
    /\ authFeed = <<>>
    /\ lastAuthEvent = Null

NoCall == [id |-> 0, caller_id |-> Null, status |-> Null]

NoCallOp == [kind |-> "none", stage |-> "none", call |-> NoCall,
             error |-> FALSE, existingCalls |-> {}]

\* the users whose CallProvider is mounted and subscribed to public:calls
CallClients == {"u1", "u2"}

CallTablesEmpty ==
    /\ dbCalls = {}
    /\ activeCall = [u \in CallClients |-> NoCall]
    /\ incomingCall = [u \in CallClients |-> NoCall]
    /\ callFeed = [u \in CallClients |-> <<>>]
    /\ callOp = [u \in CallClients |-> NoCallOp]
    /\ lookups = {}
    /\ callToast = [u \in CallClients |-> NoToast]
    /\ callRequests = 0
    /\ callNotices = [u \in CallClients |-> <<>>]

CallIdle ==
    /\ callParticipants = {}
    /\ CallTablesEmpty

-----------------------------------------------------------------------------
RECURSIVE SeqToSet(_)
SeqToSet(s) == IF s = <<>> THEN {} ELSE {Head(s)} \cup SeqToSet(Tail(s))

-----------------------------------------------------------------------------
(* Backend: select ... .order('created_at', { ascending: true }) *)

RECURSIVE OrderByCreatedAt(_)
OrderByCreatedAt(S) ==
    IF S = {} THEN <<>>
    ELSE LET m == CHOOSE x \in S : \A y \in S : x.created_at <= y.created_at
         IN  <<m>> \o OrderByCreatedAt(S \ {m})

IsSortedByCreatedAt(s) ==
    \A i, j \in 1..Len(s) : i < j => s[i].created_at <= s[j].created_at

Ids(s) == {s[i].id : i \in 1..Len(s)}

NoRepeatedId(s) == \A i, j \in 1..Len(s) : i # j => s[i].id # s[j].id

-----------------------------------------------------------------------------
(* Message synchronizer, ChatMessageArea.tsx (first component of the file) *)

\* the conversation on screen and its conversation_participants
Participants == {"u1", "u2"}

Message(id, sender, t) == [id |-> id, sender_id |-> sender, created_at |-> t]

\* ChatApp.handleSendMessage of some participant: the insert leaves created_at to
\* the backend, and the change feed reports the row to the subscribed client.
\* created_at is the time the inserting request began; the feed follows the
\* order in which the inserts were committed, so the two orders can differ.
SendMessage(u, t) ==
    /\ Cardinality(dbMessages) < MaxMessages
    /\ \A m \in dbMessages : m.created_at # t
    /\ LET row == Message(Cardinality(dbMessages) + 1, u, t)
       IN  /\ dbMessages' = dbMessages \cup {row}
           /\ msgFeed' = Append(msgFeed, row)
    /\ UNCHANGED <<dbReceipts, messages, msgFetch, markPending, lastReceiptError, toast>>
    /\ UNCHANGED outsideMsg

\* the backend answers the select of fetchMessages: rows ordered by created_at,
\* or an error
FetchQuery(i, fails) ==
    /\ i \in 1..Len(msgFetch)
    /\ msgFetch[i].status = "sent"
    /\ msgFetch' = [msgFetch EXCEPT ![i] =
            IF fails THEN [status |-> "answered", error |-> TRUE, data |-> <<>>]
            ELSE [status |-> "answered", error |-> FALSE,
                  data |-> OrderByCreatedAt(dbMessages)]]
    /\ UNCHANGED <<dbMessages, dbReceipts, messages, msgFeed, markPending,
                   lastReceiptError, toast>>
    /\ UNCHANGED outsideMsg

RemoveAt(s, i) == SubSeq(s, 1, i - 1) \o SubSeq(s, i + 1, Len(s))

\* fetchMessages after its await (ChatMessageArea.tsx 85-90)
FetchMessagesDone(i) ==
    /\ i \in 1..Len(msgFetch)
    /\ msgFetch[i].status = "answered"
    /\ IF msgFetch[i].error
       THEN /\ toast' = [toast EXCEPT ![Me] = "Failed to load messages."]
            /\ UNCHANGED messages
       ELSE /\ messages' = msgFetch[i].data
            /\ UNCHANGED toast
    /\ msgFetch' = RemoveAt(msgFetch, i)
    /\ UNCHANGED <<dbMessages, dbReceipts, msgFeed, markPending, lastReceiptError>>
    /\ UNCHANGED outsideMsg

\* setMessages(prev => [...prev, { ...rawNewMessage, profiles }])
AppendMessage(prev, rawNewMessage) == Append(prev, rawNewMessage)

\* the messages INSERT handler (ChatMessageArea.tsx 102-106)
OnMessageInsert ==
    /\ msgFeed # <<>>
    /\ messages' = AppendMessage(messages, Head(msgFeed))
    /\ msgFeed' = Tail(msgFeed)
    /\ UNCHANGED <<dbMessages, dbReceipts, msgFetch, markPending, lastReceiptError, toast>>
    /\ UNCHANGED outsideMsg

InitMsg ==
    /\ dbMessages = {}
    /\ dbReceipts = {}
    /\ messages = <<>>
    /\ msgFetch = <<[status |-> "sent"]>>      \* the mount effect has called fetchMessages
    /\ msgFeed = <<>>
    /\ markPending = <<>>
    /\ lastReceiptError = Null
    /\ toast = [u \in Users |-> NoToast]
    /\ BubbleIdle
    /\ TypingIdle
    /\ ConvIdle
    /\ CallIdle
    /\ OpenIdle
    /\ NameVarsIdle
    /\ NewChatIdle
    /\ AuthIdle

NextMsg ==
    \/ \E u \in Participants, t \in 1..MaxTime : SendMessage(u, t)
    \/ \E fails \in BOOLEAN : FetchQuery(1, fails)
    \/ FetchMessagesDone(1)
    \/ OnMessageInsert

SpecMsg == InitMsg /\ [][NextMsg]_vars

MsgQuiescent == msgFetch = <<>> /\ msgFeed = <<>>

\* C1: once the initial load and the insert notifications have been reconciled,
\* the rendered message list is the conversation's messages in created_at order
\* (stated for the runs in which the list holds each stored message exactly once,
\* so that only the order is in question).
C1_RenderedInCreatedAtOrder ==
    (/\ MsgQuiescent
     /\ toast[Me] = NoToast                   \* the load did not fail
     /\ NoRepeatedId(messages)
     /\ SeqToSet(messages) = dbMessages)
        => messages = OrderByCreatedAt(dbMessages)

\* C23: no message id appears more than once in the local message list, also
\* when a message arrives both in the response of the initial fetch and in an
\* insert notification.
C23_NoRepeatedMessageId == NoRepeatedId(messages)

\* C26: once the response of the initial fetch and every insert notification
\* have been processed, and the load did not fail, every stored message of the
\* conversation is in the local message list.
C26_EveryStoredMessageLoaded ==
    (MsgQuiescent /\ toast[Me] = NoToast) => dbMessages \subseteq SeqToSet(messages)

-----------------------------------------------------------------------------
(* Message synchronizer with read receipts, hooks/use-chat-messages.ts *)

MaxFetches == 2
MaxSeenMessages == 2

\* the backend's insert of several rows into message_receipts, whose key is
\* (message_id, user_id): one statement, so a unique violation (23505) on any
\* row inserts none of them
InsertReceiptsAtomic(table, rows) ==
    IF rows \cap table # {}
    THEN [table |-> table, code |-> "23505"]
    ELSE [table |-> table \cup rows, code |-> Null]

InsertReceiptsSkippingDuplicates(table, rows) ==
    [table |-> table \cup rows,
     code |-> IF rows \cap table # {} THEN "23505" ELSE Null]

InsertReceipts(table, rows) == InsertReceiptsAtomic(table, rows)

\* select ... message_receipts(...) ... order('created_at'): each row with the
\* users that have a receipt on it
WithReceipts(m) ==
    [id |-> m.id, sender_id |-> m.sender_id, created_at |-> m.created_at,
     message_receipts |-> {u \in Users : <<m.id, u>> \in dbReceipts}]

RECURSIVE MapWithReceipts(_)
MapWithReceipts(s) ==
    IF s = <<>> THEN <<>> ELSE <<WithReceipts(Head(s))>> \o MapWithReceipts(Tail(s))

HookFetchQuery(i, fails) ==
    /\ i \in 1..Len(msgFetch)
    /\ msgFetch[i].status = "sent"
    /\ msgFetch' = [msgFetch EXCEPT ![i] =
            IF fails THEN [status |-> "answered", error |-> TRUE, data |-> <<>>]
            ELSE [status |-> "answered", error |-> FALSE,
                  data |-> MapWithReceipts(OrderByCreatedAt(dbMessages))]]
    /\ UNCHANGED <<dbMessages, dbReceipts, messages, msgFeed, markPending,
                   lastReceiptError, toast>>
    /\ UNCHANGED outsideMsg

\* the filter without its sender test
UnseenIncludingOwn(fetchedMessages, currentUser) ==
    {fetchedMessages[k].id : k \in
        {j \in 1..Len(fetchedMessages) :
            currentUser \notin fetchedMessages[j].message_receipts}}

\* use-chat-messages.ts 101-103
UnseenMessageIds(fetchedMessages, currentUser) ==
    {fetchedMessages[k].id : k \in
        {j \in 1..Len(fetchedMessages) :
            /\ fetchedMessages[j].sender_id # currentUser
            /\ currentUser \notin fetchedMessages[j].message_receipts}}

\* markMessagesAsSeen, 38-41
ReceiptsToInsert(messageIds, currentUser) == {<<id, currentUser>> : id \in messageIds}

\* fetchMessages after its await (use-chat-messages.ts 85-107), up to the await
\* inside markMessagesAsSeen
HookFetchMessagesDone(i) ==
    /\ i \in 1..Len(msgFetch)
    /\ msgFetch[i].status = "answered"
    /\ msgFetch' = RemoveAt(msgFetch, i)
    /\ IF msgFetch[i].error
       THEN /\ toast' = [toast EXCEPT ![Me] = "Failed to load messages."]
            /\ messages' = <<>>
            /\ UNCHANGED markPending
       ELSE /\ messages' = msgFetch[i].data
            /\ LET unseen == UnseenMessageIds(msgFetch[i].data, Me)
               IN  markPending' =
                     IF unseen # {}
                     THEN Append(markPending,
                                 [status |-> "sent", rows |-> ReceiptsToInsert(unseen, Me)])
                     ELSE markPending
            /\ UNCHANGED toast
    /\ UNCHANGED <<dbMessages, dbReceipts, msgFeed, lastReceiptError>>
    /\ UNCHANGED outsideMsg

\* the backend runs the insert of markMessagesAsSeen (43-46); fails: the request
\* fails for another reason than a duplicate
MarkSeenInsert(i, fails) ==
    /\ i \in 1..Len(markPending)
    /\ markPending[i].status = "sent"
    /\ LET r == InsertReceipts(dbReceipts, markPending[i].rows)
       IN  IF fails
           THEN /\ markPending' = [markPending EXCEPT ![i] =
                        [status |-> "answered", rows |-> @.rows, code |-> "other"]]
                /\ UNCHANGED dbReceipts
           ELSE /\ markPending' = [markPending EXCEPT ![i] =
                        [status |-> "answered", rows |-> @.rows, code |-> r.code]]
                /\ dbReceipts' = r.table
    /\ UNCHANGED <<dbMessages, messages, msgFetch, msgFeed, lastReceiptError, toast>>
    /\ UNCHANGED outsideMsg

\* what markMessagesAsSeen shows the user for the insert's error (48-50):
\* console.error at most, never a toast
ToastAfterMarkSeen(t, code) == t

ToastEveryReceiptError(t, code) ==
    IF code # Null THEN "Failed to mark messages as seen." ELSE t

\* markMessagesAsSeen after its await
MarkSeenDone(i) ==
    /\ i \in 1..Len(markPending)
    /\ markPending[i].status = "answered"
    /\ lastReceiptError' = markPending[i].code
    /\ toast' = [toast EXCEPT ![Me] = ToastAfterMarkSeen(@, markPending[i].code)]
    /\ markPending' = RemoveAt(markPending, i)
    /\ UNCHANGED <<dbMessages, dbReceipts, messages, msgFetch, msgFeed>>
    /\ UNCHANGED outsideMsg

\* the handler of every change on messages (120-123): fetchMessages()
OnMessagesChange ==
    /\ msgFeed # <<>>
    /\ Len(msgFetch) < MaxFetches
    /\ msgFeed' = Tail(msgFeed)
    /\ msgFetch' = Append(msgFetch, [status |-> "sent"])
    /\ UNCHANGED <<dbMessages, dbReceipts, messages, markPending, lastReceiptError, toast>>
    /\ UNCHANGED outsideMsg

NextSeen ==
    \/ \E u \in Participants :
          /\ Cardinality(dbMessages) < MaxSeenMessages
          /\ SendMessage(u, Cardinality(dbMessages) + 1)
    \/ \E i \in 1..Len(msgFetch), fails \in BOOLEAN : HookFetchQuery(i, fails)
    \/ \E i \in 1..Len(msgFetch) : HookFetchMessagesDone(i)
    \/ \E i \in 1..Len(markPending), fails \in BOOLEAN : MarkSeenInsert(i, fails)
    \/ \E i \in 1..Len(markPending) : MarkSeenDone(i)
    \/ OnMessagesChange

SpecSeen == InitMsg /\ [][NextSeen]_vars

ExpectedReceipts(loaded) ==
    {<<m.id, Me>> : m \in {x \in SeqToSet(loaded) :
                              x.sender_id # Me /\ Me \notin x.message_receipts}}

\* C19: a completed load asks for receipts of exactly the loaded messages that
\* another user sent and the current user has no receipt of in the snapshot, in
\* one batch, and every receipt the backend stores is the current user's for a
\* message of another sender.
C19_ReceiptsExactlyForUnseen ==
    [][/\ \A i \in 1..Len(msgFetch) :
            (HookFetchMessagesDone(i) /\ ~msgFetch[i].error) =>
                IF ExpectedReceipts(msgFetch[i].data) = {}
                THEN markPending' = markPending
                ELSE /\ Len(markPending') = Len(markPending) + 1
                     /\ markPending'[Len(markPending')].rows
                            = ExpectedReceipts(msgFetch[i].data)
       /\ \A r \in dbReceipts' \ dbReceipts :
            /\ r[2] = Me
            /\ \E m \in dbMessages : m.id = r[1] /\ m.sender_id # Me]_vars

\* a load held a message of the current user and one of another user, and the
\* only receipt stored is the current user's on the other user's message
C19_Witness ==
    /\ \E m \in dbMessages : m.sender_id = Me
    /\ \E m \in dbMessages : m.sender_id # Me /\ dbReceipts = {<<m.id, Me>>}
    /\ Len(messages) = 2
    /\ markPending = <<>>
    /\ msgFetch = <<>>

-----------------------------------------------------------------------------
(* MessageBubble.isMessageSeenByAllOthers (components/chat/MessageBubble.tsx) *)

\* a predicate that is content with one receipt of another participant
\* (otherParticipants.some in place of .every)
isMessageSeenByAnyOther(msg, currentUser, conversationParticipants) ==
    IF msg.sender_id # currentUser \/ ~msg.hasReceipts THEN FALSE
    ELSE \E otherP \in conversationParticipants \ {currentUser} :
            otherP \in msg.message_receipts

\* MessageBubble.tsx 28-37
isMessageSeenByAllOthers(msg, currentUser, conversationParticipants) ==
    IF msg.sender_id # currentUser \/ ~msg.hasReceipts THEN FALSE
    ELSE LET otherParticipants == conversationParticipants \ {currentUser}
         IN  IF otherParticipants = {} THEN FALSE
             ELSE \A otherP \in otherParticipants : otherP \in msg.message_receipts

InitBubble ==
    /\ MsgIdle
    /\ TypingIdle
    /\ ConvIdle
    /\ CallIdle
    /\ OpenIdle
    /\ NameVarsIdle
    /\ NewChatIdle
    /\ AuthIdle
    /\ bubble \in [currentUser : Users,
                   sender_id : Users,
                   hasReceipts : BOOLEAN,
                   message_receipts : SUBSET Users,
                   conversationParticipants : SUBSET Users,
                   rendered : {FALSE},
                   seenByAll : {FALSE}]
    /\ ~bubble.hasReceipts => bubble.message_receipts = {}

\* a render of the bubble: const seenByAll = isMessageSeenByAllOthers(message)
RenderBubble ==
    /\ bubble' = [bubble EXCEPT !.rendered = TRUE, !.seenByAll =
            isMessageSeenByAllOthers(bubble, bubble.currentUser,
                                     bubble.conversationParticipants)]
    /\ UNCHANGED outsideBubble

\* the conversation is rendered with one participant more
AddParticipant(p) ==
    /\ p \notin bubble.conversationParticipants
    /\ bubble' = [bubble EXCEPT !.conversationParticipants = @ \cup {p},
                                !.rendered = FALSE]
    /\ UNCHANGED outsideBubble

\* the message is rendered with one receipt more
AddReceipt(u) ==
    /\ bubble.hasReceipts
    /\ u \notin bubble.message_receipts
    /\ bubble' = [bubble EXCEPT !.message_receipts = @ \cup {u},
                                !.rendered = FALSE]
    /\ UNCHANGED outsideBubble

NextBubble ==
    \/ RenderBubble
    \/ \E p \in Users : AddParticipant(p)
    \/ \E u \in Users : AddReceipt(u)

SpecSeenBy == InitBubble /\ [][NextBubble]_vars

EveryOtherHasReceipt(b) ==
    \A p \in b.conversationParticipants \ {b.sender_id} : p \in b.message_receipts

\* C3 as claimed: for every message, participant set and receipt set, seenByAll
\* is true iff every participant other than the sender has a receipt, the
\* boundary cases included.
C3_SeenByAllIffEveryOther ==
    bubble.rendered
        => (bubble.seenByAll <=> EveryOtherHasReceipt(bubble))

\* C3 amended: for a message the viewer sent, in a conversation with another
\* participant, seenByAll is true iff every participant other than the sender has
\* a receipt; it is false for a message the viewer did not send and when there is
\* no other participant.
C3_SeenByAllOfOwnMessage ==
    bubble.rendered
        => LET own == bubble.sender_id = bubble.currentUser
               others == bubble.conversationParticipants \ {bubble.currentUser}
           IN  /\ (own /\ others # {})
                     => (bubble.seenByAll <=> EveryOtherHasReceipt(bubble))
               /\ (~own \/ others = {}) => bubble.seenByAll = FALSE

\* a rendered own message with two other participants, one without a receipt
C3_Witness ==
    /\ bubble.rendered
    /\ bubble.seenByAll = FALSE
    /\ bubble.sender_id = bubble.currentUser
    /\ Cardinality(bubble.conversationParticipants \ {bubble.currentUser}) = 2
    /\ Cardinality(bubble.message_receipts \ {bubble.currentUser}) = 1

-----------------------------------------------------------------------------
(* Typing status in ChatMessageArea.tsx (first component of the file):     *)
(* the typing_status handler and its per-user timers, lines 110-152        *)

\* setTimeout(..., 3000), ChatMessageArea.tsx 140
TYPING_INDICATOR_TIMEOUT_MS == 3000

\* the clock advances in steps of a third of the timeout
TickMs == TYPING_INDICATOR_TIMEOUT_MS \div 3
MaxTicks == 5
\* notifications the change feed holds undelivered at one time
MaxTypingFeed == 2

InitTyping ==
    /\ MsgIdle
    /\ BubbleIdle
    /\ TypingIdle
    /\ ConvIdle
    /\ CallIdle
    /\ OpenIdle
    /\ NameVarsIdle
    /\ NewChatIdle
    /\ AuthIdle

\* time passes; a timer that is due runs before the clock moves on
Tick ==
    /\ now + TickMs <= MaxTicks * TickMs
    /\ \A t \in typingTimeoutRef : t.due > now
    /\ now' = now + TickMs
    /\ UNCHANGED <<dbTyping, typingFeed, typingUsers, typingTimeoutRef>>
    /\ UNCHANGED outsideTyping

\* updateTypingStatus of participant u (156-162): upsert of the row keyed by
\* (conversation_id, user_id) with last_typed_at = now; the change feed reports it
UpdateTypingStatus(u) ==
    /\ Len(typingFeed) < MaxTypingFeed
    /\ dbTyping' = {r \in dbTyping : r.user_id # u}
                       \cup {[user_id |-> u, last_typed_at |-> now]}
    /\ typingFeed' = Append(typingFeed,
            [eventType |-> IF \E r \in dbTyping : r.user_id = u
                           THEN "UPDATE" ELSE "INSERT",
             user_id |-> u, last_typed_at |-> now])
    /\ UNCHANGED <<now, typingUsers, typingTimeoutRef>>
    /\ UNCHANGED outsideTyping

\* removeTypingStatus of participant u (164-169)
RemoveTypingStatus(u) ==
    /\ Len(typingFeed) < MaxTypingFeed
    /\ \E r \in dbTyping : r.user_id = u
    /\ dbTyping' = {r \in dbTyping : r.user_id # u}
    /\ typingFeed' = Append(typingFeed,
            [eventType |-> "DELETE", user_id |-> u,
             last_typed_at |-> (CHOOSE r \in dbTyping : r.user_id = u).last_typed_at])
    /\ UNCHANGED <<now, typingUsers, typingTimeoutRef>>
    /\ UNCHANGED outsideTyping

RECURSIVE FilterOut(_, _)
FilterOut(s, u) ==
    IF s = <<>> THEN <<>>
    ELSE IF Head(s) = u THEN FilterOut(Tail(s), u)
    ELSE <<Head(s)>> \o FilterOut(Tail(s), u)

\* the typing_status handler (115-143)
OnTypingChange ==
    /\ typingFeed # <<>>
    /\ typingFeed' = Tail(typingFeed)
    /\ LET record == Head(typingFeed)
           cleared == {t \in typingTimeoutRef : t.user_id # record.user_id}
       IN  IF record.user_id = Me \/ record.user_id \notin Participants
           THEN UNCHANGED <<typingUsers, typingTimeoutRef>>
           ELSE IF record.eventType = "DELETE"
           THEN /\ typingUsers' = FilterOut(typingUsers, record.user_id)
                /\ typingTimeoutRef' = cleared
           ELSE /\ typingUsers' =
                      IF record.user_id \in SeqToSet(typingUsers) THEN typingUsers
                      ELSE Append(typingUsers, record.user_id)
                /\ typingTimeoutRef' = cleared \cup
                      {[user_id |-> record.user_id,
                        due |-> now + TYPING_INDICATOR_TIMEOUT_MS]}
    /\ UNCHANGED <<now, dbTyping>>
    /\ UNCHANGED outsideTyping

\* the timer callback (137-140)
TypingTimeout(u) ==
    /\ \E t \in typingTimeoutRef : t.user_id = u /\ t.due <= now
    /\ typingUsers' = FilterOut(typingUsers, u)
    /\ typingTimeoutRef' = {t \in typingTimeoutRef : t.user_id # u}
    /\ UNCHANGED <<now, dbTyping, typingFeed>>
    /\ UNCHANGED outsideTyping

NextTyping ==
    \/ Tick
    \/ \E u \in Participants : UpdateTypingStatus(u)
    \/ \E u \in Participants : RemoveTypingStatus(u)
    \/ OnTypingChange
    \/ \E u \in Participants : TypingTimeout(u)

SpecTyping == InitTyping /\ [][NextTyping]_vars

\* C4: a user whose typing row has last_typed_at older than 3000 ms is not in
\* typingUsers, whether or not a delete notification was delivered.
C4_StaleRowNotShown ==
    \A r \in dbTyping :
        now - r.last_typed_at > TYPING_INDICATOR_TIMEOUT_MS
            => r.user_id \notin SeqToSet(typingUsers)

-----------------------------------------------------------------------------
(* Conversation list synchronizer: the two ChatApp components of            *)
(* components/ChatApp.tsx ("first": lines 40-298, "second": lines 337-591)  *)

MaxConvFetches == 2

ConversationIds == {"c1", "c2"}

\* the rows the backend holds at the start, with the created_at of the latest
\* message of each (conversation_last_message)
ConversationRow(c) ==
    [id |-> c,
     latest_message_created_at |-> IF c = "c1" THEN 1 ELSE 2]

\* latest_message_created_at: string | null (ChatApp.tsx 37): null
NoTimestamp == -1

\* a.latest_message_created_at ? new Date(...).getTime() : 0, ChatApp.tsx 127-128
TimeOf(latest_message_created_at) ==
    IF latest_message_created_at = NoTimestamp THEN 0 ELSE latest_message_created_at

\* a sort in ascending order
RECURSIVE SortByLatestAsc(_)
SortByLatestAsc(S) ==
    IF S = {} THEN <<>>
    ELSE LET c == CHOOSE x \in S : \A y \in S :
                    TimeOf(x.latest_message_created_at)
                        <= TimeOf(y.latest_message_created_at)
         IN  <<c>> \o SortByLatestAsc(S \ {c})

\* processedConversations.sort((a, b) => dateB - dateA), ChatApp.tsx 126-130
RECURSIVE SortByLatestDesc(_)
SortByLatestDesc(S) ==
    IF S = {} THEN <<>>
    ELSE LET c == CHOOSE x \in S : \A y \in S :
                    TimeOf(x.latest_message_created_at)
                        >= TimeOf(y.latest_message_created_at)
         IN  <<c>> \o SortByLatestDesc(S \ {c})

InitConv ==
    /\ MsgIdle
    /\ BubbleIdle
    /\ TypingIdle
    /\ CallIdle
    /\ OpenIdle
    /\ NameVarsIdle
    /\ NewChatIdle
    /\ AuthIdle
    /\ chatApp \in {"first", "second"}
    /\ dbConversations = {ConversationRow(c) : c \in ConversationIds}
    /\ conversations = <<>>
    /\ selectedConversationId = Null
    \* the mount effect has called fetchConversations
    /\ isLoadingConversations = TRUE
    /\ convFetch = <<[status |-> "sent", selectedConversationId |-> Null]>>
    /\ convFeed = <<>>
    /\ convDelete = NoDelete

\* the backend answers the two selects of fetchConversations (56-98)
FetchConversationsQuery(i, fails) ==
    /\ i \in 1..Len(convFetch)
    /\ convFetch[i].status = "sent"
    /\ convFetch' = [convFetch EXCEPT ![i] =
            [status |-> "answered",
             selectedConversationId |-> @.selectedConversationId,
             error |-> fails,
             data |-> IF fails THEN <<>> ELSE SortByLatestDesc(dbConversations)]]
    /\ UNCHANGED <<chatApp, dbConversations, conversations, selectedConversationId,
                   isLoadingConversations, convFeed, convDelete>>
    /\ UNCHANGED outsideConv

\* the selection after a load: first component 134-139, second 431-435;
\* closureSelected is the selectedConversationId of the render that made the call
SelectionAfterLoadFirst(processedConversations, closureSelected, current) ==
    IF /\ processedConversations # <<>>
       /\ \/ closureSelected = Null
          \/ closureSelected \notin Ids(processedConversations)
    THEN processedConversations[1].id
    ELSE IF processedConversations = <<>> THEN Null
    ELSE current

SelectionAfterLoadSecond(processedConversations, closureSelected, current) ==
    IF processedConversations # <<>> /\ closureSelected = Null
    THEN processedConversations[1].id
    ELSE IF processedConversations = <<>> THEN Null
    ELSE current

SelectionAfterLoad(processedConversations, closureSelected, current) ==
    IF chatApp = "first"
    THEN SelectionAfterLoadFirst(processedConversations, closureSelected, current)
    ELSE SelectionAfterLoadSecond(processedConversations, closureSelected, current)

\* the subscription effect depends on selectedConversationId (through
\* fetchConversations in the first component, directly in the second): when the
\* selection changes it runs again and calls fetchConversations, whose closure
\* holds the new selection (143-173, 344-465)
EffectRerun(fetches, newSelected) ==
    IF newSelected # selectedConversationId
    THEN Append(fetches, [status |-> "sent", selectedConversationId |-> newSelected])
    ELSE fetches

\* fetchConversations after its awaits (78-140)
FetchConversationsDone(i) ==
    /\ i \in 1..Len(convFetch)
    /\ convFetch[i].status = "answered"
    /\ IF convFetch[i].error
       THEN /\ toast' = [toast EXCEPT ![Me] = "Failed to load conversations"]
            /\ convFetch' = RemoveAt(convFetch, i)
            /\ isLoadingConversations' = FALSE
            /\ UNCHANGED <<conversations, selectedConversationId>>
       ELSE LET sel == SelectionAfterLoad(convFetch[i].data,
                                          convFetch[i].selectedConversationId,
                                          selectedConversationId)
            IN  /\ conversations' = convFetch[i].data
                /\ selectedConversationId' = sel
                /\ convFetch' = EffectRerun(RemoveAt(convFetch, i), sel)
                \* setIsLoadingConversations(false), then (true) if the effect reruns
                /\ isLoadingConversations' = (sel # selectedConversationId)
                /\ UNCHANGED toast
    /\ UNCHANGED <<chatApp, dbConversations, convFeed, convDelete>>
    /\ UNCHANGED <<dbMessages, dbReceipts, messages, msgFetch, msgFeed, markPending,
                   lastReceiptError, bubble, typingVars, callVars, openVars, nameVars, newChat, authVars>>

\* the handler of every change on conversations (157-159): fetchConversations()
OnConversationsChange ==
    /\ convFeed # <<>>
    /\ Len(convFetch) < MaxConvFetches
    /\ convFeed' = Tail(convFeed)
    /\ convFetch' = Append(convFetch,
            [status |-> "sent", selectedConversationId |-> selectedConversationId])
    /\ isLoadingConversations' = TRUE
    /\ UNCHANGED <<chatApp, dbConversations, conversations, selectedConversationId,
                   convDelete>>
    /\ UNCHANGED outsideConv

\* onSelectConversation={setSelectedConversationId} on a row of the sidebar
SelectConversation(c) ==
    /\ c \in Ids(conversations)
    /\ c # selectedConversationId
    \* the sidebar is rendered only when the spinner is not (210-217)
    /\ ~isLoadingConversations
    /\ Len(convFetch) < MaxConvFetches
    /\ selectedConversationId' = c
    /\ convFetch' = EffectRerun(convFetch, c)
    /\ isLoadingConversations' = TRUE
    /\ UNCHANGED <<chatApp, dbConversations, conversations, convFeed, convDelete>>
    /\ UNCHANGED outsideConv

\* another participant deletes the conversation; the change feed reports it
DeleteByOtherParticipant(c) ==
    /\ \E r \in dbConversations : r.id = c
    /\ dbConversations' = {r \in dbConversations : r.id # c}
    /\ convFeed' = Append(convFeed, [eventType |-> "DELETE", id |-> c])
    /\ UNCHANGED <<chatApp, conversations, selectedConversationId,
                   isLoadingConversations, convFetch, convDelete>>
    /\ UNCHANGED outsideConv

\* ChatMessageArea.handleDeleteConversation of the conversation on screen
\* (ChatMessageArea.tsx 187-188): the backend runs the delete
HandleDeleteConversation(fails) ==
    /\ convDelete = NoDelete
    /\ ~isLoadingConversations
    /\ selectedConversationId \in Ids(conversations)
    /\ convDelete' = [status |-> IF fails THEN "error" ELSE "ok",
                      id |-> selectedConversationId]
    /\ IF ~fails /\ \E r \in dbConversations : r.id = selectedConversationId
       THEN /\ dbConversations' = {r \in dbConversations : r.id # selectedConversationId}
            /\ convFeed' = Append(convFeed,
                                  [eventType |-> "DELETE", id |-> selectedConversationId])
       ELSE UNCHANGED <<dbConversations, convFeed>>
    /\ UNCHANGED <<chatApp, conversations, selectedConversationId,
                   isLoadingConversations, convFetch>>
    /\ UNCHANGED outsideConv

RECURSIVE FilterOutId(_, _)
FilterOutId(s, id) ==
    IF s = <<>> THEN <<>>
    ELSE IF Head(s).id = id THEN FilterOutId(Tail(s), id)
    ELSE <<Head(s)>> \o FilterOutId(Tail(s), id)

\* handleDeleteConversation after its await (ChatMessageArea.tsx 189-194) and
\* ChatApp.handleConversationDeleted (194-204); the handler is the one of the
\* render that showed the deleted conversation, whose selectedConversationId
\* is that conversation
HandleConversationDeleted ==
    /\ convDelete # NoDelete
    /\ Len(convFetch) < MaxConvFetches
    /\ convDelete' = NoDelete
    /\ IF convDelete.status = "error"
       THEN /\ toast' = [toast EXCEPT ![Me] = "Failed to delete conversation."]
            /\ UNCHANGED <<conversations, selectedConversationId, convFetch,
                           isLoadingConversations>>
       ELSE LET updatedConversations == FilterOutId(conversations, convDelete.id)
                sel == IF updatedConversations # <<>>
                       THEN updatedConversations[1].id ELSE Null
            IN  /\ conversations' = updatedConversations
                /\ selectedConversationId' = sel
                /\ convFetch' = EffectRerun(convFetch, sel)
                /\ isLoadingConversations' =
                        (isLoadingConversations \/ sel # selectedConversationId)
                /\ toast' = [toast EXCEPT ![Me] = "Conversation deleted."]
    /\ UNCHANGED <<chatApp, dbConversations, convFeed>>
    /\ UNCHANGED <<dbMessages, dbReceipts, messages, msgFetch, msgFeed, markPending,
                   lastReceiptError, bubble, typingVars, callVars, openVars, nameVars, newChat, authVars>>

NextConv ==
    \/ \E i \in 1..Len(convFetch), fails \in BOOLEAN : FetchConversationsQuery(i, fails)
    \/ \E i \in 1..Len(convFetch) : FetchConversationsDone(i)
    \/ OnConversationsChange
    \/ \E c \in ConversationIds : SelectConversation(c)
    \/ \E c \in ConversationIds : DeleteByOtherParticipant(c)
    \/ \E fails \in BOOLEAN : HandleDeleteConversation(fails)
    \/ HandleConversationDeleted

SpecConv == InitConv /\ [][NextConv]_vars

\* C5: selectedConversationId is null or the id of a conversation of the
\* current list, whatever loads, change notifications and deletions happened.
C5_SelectionNeverDangling ==
    selectedConversationId = Null \/ selectedConversationId \in Ids(conversations)

-----------------------------------------------------------------------------
(* Conversation list with latest-message summaries: the ChatApp component   *)
(* of unnamed/part_003 ("third"), which reloads on conversations changes    *)
(* and updates the summary in place on messages INSERT                      *)

MaxListTime == 2
\* notifications the channels hold undelivered at one time
MaxListFeed == 2

outsideList == <<dbMessages, dbReceipts, messages, msgFetch, msgFeed, markPending,
                 lastReceiptError, bubble, typingVars, callVars, openVars, nameVars, newChat, authVars>>

InitList ==
    /\ MsgIdle
    /\ BubbleIdle
    /\ TypingIdle
    /\ CallIdle
    /\ OpenIdle
    /\ NameVarsIdle
    /\ NewChatIdle
    /\ AuthIdle
    /\ chatApp = "third"
    \* every conversation with or without a first message
    /\ dbConversations \in
          {{[id |-> "c1", latest_message_created_at |-> t1],
            [id |-> "c2", latest_message_created_at |-> t2]} :
                t1 \in {NoTimestamp, 1}, t2 \in {NoTimestamp}}
    /\ conversations = <<>>
    /\ selectedConversationId = Null
    \* the mount effect has called fetchConversations (part_003 145-148)
    /\ isLoadingConversations = TRUE
    /\ convFetch = <<[status |-> "sent", selectedConversationId |-> Null]>>
    /\ convFeed = <<>>
    /\ convDelete = NoDelete

\* the backend answers the two selects of fetchConversations (part_003 57-103):
\* the first fails, or the second fails, or both return rows
ListFetchQuery(i, outcome) ==
    /\ i \in 1..Len(convFetch)
    /\ convFetch[i].status = "sent"
    /\ convFetch' = [convFetch EXCEPT ![i] =
            [status |-> "answered",
             selectedConversationId |-> @.selectedConversationId,
             error |-> outcome,
             data |-> IF outcome # "none" THEN <<>>
                      ELSE SortByLatestDesc(dbConversations)]]
    /\ UNCHANGED <<chatApp, dbConversations, conversations, selectedConversationId,
                   isLoadingConversations, convFeed, convDelete>>
    /\ UNCHANGED outsideConv

\* part_003 139-141; closureSelected is the selectedConversationId that
\* useCallback(..., [user]) captured
SelectionAfterLoadThird(processedConversations, closureSelected, current) ==
    IF closureSelected = Null \/ closureSelected \notin Ids(processedConversations)
    THEN IF processedConversations # <<>> THEN processedConversations[1].id ELSE Null
    ELSE current

\* the list after a failed load (part_003 82, 99)
ListAfterFetchError(prev) == <<>>

\* fetchConversations after its awaits (part_003 79-142)
ListFetchDone(i) ==
    /\ i \in 1..Len(convFetch)
    /\ convFetch[i].status = "answered"
    /\ convFetch' = RemoveAt(convFetch, i)
    /\ isLoadingConversations' = FALSE
    /\ IF convFetch[i].error # "none"
       THEN /\ toast' = [toast EXCEPT ![Me] =
                   IF convFetch[i].error = "conversationsError"
                   THEN "Failed to load conversations"
                   ELSE "Failed to load latest messages"]
            /\ conversations' = ListAfterFetchError(conversations)
            /\ selectedConversationId' = Null
       ELSE /\ conversations' = convFetch[i].data
            /\ selectedConversationId' =
                   SelectionAfterLoadThird(convFetch[i].data,
                                           convFetch[i].selectedConversationId,
                                           selectedConversationId)
            /\ UNCHANGED toast
    /\ UNCHANGED <<chatApp, dbConversations, convFeed, convDelete>>
    /\ UNCHANGED outsideList

\* a participant's message lands in conversation c with created_at t; the view
\* conversation_last_message keeps the greatest created_at; the change feed
\* reports the insert
ListSendMessage(c, t) ==
    /\ Len(convFeed) < MaxListFeed
    /\ \E r \in dbConversations : r.id = c
    /\ \A r \in dbConversations : r.latest_message_created_at # t
    /\ dbConversations' =
          {IF r.id = c /\ t > TimeOf(r.latest_message_created_at)
           THEN [r EXCEPT !.latest_message_created_at = t] ELSE r :
               r \in dbConversations}
    /\ convFeed' = Append(convFeed, [eventType |-> "INSERT", id |-> c, created_at |-> t])
    /\ UNCHANGED <<chatApp, conversations, selectedConversationId,
                   isLoadingConversations, convFetch, convDelete>>
    /\ UNCHANGED outsideConv

\* another participant deletes conversation c; the change feed reports it
ListDeleteConversation(c) ==
    /\ Len(convFeed) < MaxListFeed
    /\ \E r \in dbConversations : r.id = c
    /\ dbConversations' = {r \in dbConversations : r.id # c}
    /\ convFeed' = Append(convFeed, [eventType |-> "DELETE", id |-> c, created_at |-> 0])
    /\ UNCHANGED <<chatApp, conversations, selectedConversationId,
                   isLoadingConversations, convFetch, convDelete>>
    /\ UNCHANGED outsideConv

\* the handler of channel public:conversations (part_003 152-160)
ListOnConversationsChange ==
    /\ convFeed # <<>>
    /\ Head(convFeed).eventType = "DELETE"
    /\ Len(convFetch) < MaxConvFetches
    /\ convFeed' = Tail(convFeed)
    /\ convFetch' = Append(convFetch, [status |-> "sent", selectedConversationId |-> Null])
    /\ isLoadingConversations' = TRUE
    /\ UNCHANGED <<chatApp, dbConversations, conversations, selectedConversationId,
                   convDelete>>
    /\ UNCHANGED outsideConv

\* prevConversations.map(...) of the messages INSERT handler (part_003 171-182)
RECURSIVE WithLatestMessage(_, _)
WithLatestMessage(prevConversations, newMessage) ==
    IF prevConversations = <<>> THEN <<>>
    ELSE LET conv == Head(prevConversations)
         IN  <<IF conv.id = newMessage.id
               THEN [conv EXCEPT !.latest_message_created_at = newMessage.created_at]
               ELSE conv>>
             \o WithLatestMessage(Tail(prevConversations), newMessage)

\* the handler of channel public:messages (part_003 166-191)
ListOnMessageInsert ==
    /\ convFeed # <<>>
    /\ Head(convFeed).eventType = "INSERT"
    /\ convFeed' = Tail(convFeed)
    /\ conversations' =
          SortByLatestDesc(SeqToSet(WithLatestMessage(conversations, Head(convFeed))))
    /\ UNCHANGED <<chatApp, dbConversations, selectedConversationId,
                   isLoadingConversations, convFetch, convDelete>>
    /\ UNCHANGED outsideConv

NextList ==
    \/ \E i \in 1..Len(convFetch),
          outcome \in {"none", "conversationsError", "latestMessagesError"} :
              ListFetchQuery(i, outcome)
    \/ \E i \in 1..Len(convFetch) : ListFetchDone(i)
    \/ \E c \in ConversationIds, t \in 1..MaxListTime : ListSendMessage(c, t)
    \/ \E c \in ConversationIds : ListDeleteConversation(c)
    \/ ListOnConversationsChange
    \/ ListOnMessageInsert

SpecList == InitList /\ [][NextList]_vars

IsSortedByLatestDesc(s) ==
    \A i, j \in 1..Len(s) :
        i < j => TimeOf(s[i].latest_message_created_at)
                    >= TimeOf(s[j].latest_message_created_at)

\* C12: the conversation list is sorted descending by latest-message timestamp,
\* a conversation without messages counting as timestamp zero, after every
\* completed load and every processed message insert notification.
C12_ListSortedByLatestDesc == IsSortedByLatestDesc(conversations)

\* a message insert notification moved conversation c2 to the top, and the
\* conversation without messages is at the bottom
C12_Witness ==
    /\ Len(conversations) = 2
    /\ conversations[1].id = "c2"
    /\ conversations[1].latest_message_created_at >= 1
    /\ conversations[2].latest_message_created_at = NoTimestamp
    /\ convFeed = <<>>
    /\ convFetch = <<>>

\* C13: when either fetch of a load fails, the previously loaded list is left
\* exactly as it was.
C13_FailedLoadKeepsList ==
    [][\A i \in 1..Len(convFetch) :
          (ListFetchDone(i) /\ convFetch[i].error # "none")
              => conversations' = conversations]_vars

\* C24: a completed reload leaves selectedConversationId as it was when the
\* selected conversation is in the refreshed list.
C24_ReloadKeepsSelection ==
    [][\A i \in 1..Len(convFetch) :
          (/\ ListFetchDone(i)
           /\ convFetch[i].error = "none"
           /\ selectedConversationId \in Ids(convFetch[i].data))
              => selectedConversationId' = selectedConversationId]_vars

Max(a, b) == IF a >= b THEN a ELSE b

SummaryOf(s, c) ==
    LET i == CHOOSE k \in 1..Len(s) : s[k].id = c
    IN  TimeOf(s[i].latest_message_created_at)

\* C20: after a message insert notification is processed, the summary of its
\* conversation is the message with the greatest created_at among the summary
\* it had and the message notified, whatever the order of delivery.
C20_SummaryIsGreatestCreatedAt ==
    [][(ListOnMessageInsert /\ Head(convFeed).id \in Ids(conversations))
          => SummaryOf(conversations', Head(convFeed).id)
                = Max(SummaryOf(conversations, Head(convFeed).id),
                      Head(convFeed).created_at)]_vars

-----------------------------------------------------------------------------
(* Call signalling: CallProvider (unnamed/part_002) and the buttons of      *)
(* components/CallUI.tsx. One conversation, whose participants are          *)
(* callParticipants; every user of CallClients runs a client subscribed to  *)
(* public:calls, participant or not. Nothing in the repository deletes a    *)
(* call row, so the DELETE handler (109-123) never runs.                    *)

MaxCalls == 2
\* startCall, acceptCall, declineCall and endCall calls of one run
MaxCallRequests == 3

InitCall ==
    /\ MsgIdle
    /\ BubbleIdle
    /\ TypingIdle
    /\ ConvIdle
    /\ OpenIdle
    /\ NameVarsIdle
    /\ NewChatIdle
    /\ AuthIdle
    \* u1 talks either to u2 or to u3, whose client is not running
    /\ callParticipants \in {{"u1", "u2"}, {"u1", "u3"}}
    /\ CallTablesEmpty

NonTerminal == {"ringing", "active"}

\* a query that looks for active calls only
ExistingActiveCalls(table) == {r.id : r \in {x \in table : x.status = "active"}}

\* .from('calls').select('id, status').eq('conversation_id', ...)
\*     .in('status', ['ringing', 'active']), part_002 139-143
ExistingCalls(table) == {r.id : r \in {x \in table : x.status \in NonTerminal}}

\* a guard that lets every startCall through
ExistingCallsIgnored(existingCalls) == FALSE

\* existingCalls && existingCalls.length > 0, part_002 151
ExistingCallsFound(existingCalls) == existingCalls # {}

\* the realtime channel hands a change to every subscribed client
Broadcast(feed, eventType, row) ==
    [u \in CallClients |-> Append(feed[u], [eventType |-> eventType, new |-> row])]

PendingStarts == {u \in CallClients : callOp[u].kind = "start"}

\* handleStartCall (ChatMessageArea.tsx 209-212, button disabled while activeCall
\* is set, 240): startCall up to its first await
StartCall(u) ==
    /\ u \in callParticipants
    /\ callOp[u] = NoCallOp
    /\ activeCall[u] = NoCall
    /\ Cardinality(dbCalls) + Cardinality(PendingStarts) < MaxCalls
    /\ callRequests < MaxCallRequests
    /\ callRequests' = callRequests + 1
    /\ callOp' = [callOp EXCEPT ![u] =
            [NoCallOp EXCEPT !.kind = "start", !.stage = "sent"]]
    /\ UNCHANGED <<callParticipants, callNotices, dbCalls, activeCall, incomingCall, callFeed, lookups, callToast>>
    /\ UNCHANGED outsideCall

\* the backend answers the pre-check query (139-143)
StartCallPreCheck(u, fails) ==
    /\ callOp[u].kind = "start"
    /\ callOp[u].stage = "sent"
    /\ callOp' = [callOp EXCEPT ![u] =
            [@ EXCEPT !.stage = "checked", !.error = fails,
                      !.existingCalls = IF fails THEN {}
                                        ELSE ExistingCalls(dbCalls)]]
    /\ UNCHANGED <<callParticipants, callNotices, callRequests, dbCalls, activeCall, incomingCall, callFeed, lookups, callToast>>
    /\ UNCHANGED outsideCall

\* startCall from the answer of the pre-check to the execution of its insert by
\* the backend (145-169); a request on its way changes nothing a client can see,
\* so sending and executing it are one step
StartCallInsert(u, fails) ==
    /\ callOp[u].kind = "start"
    /\ callOp[u].stage = "checked"
    /\ IF callOp[u].error
       THEN /\ callToast' = [callToast EXCEPT ![u] = "Failed to check for existing calls."]
            /\ callOp' = [callOp EXCEPT ![u] = NoCallOp]
            /\ UNCHANGED <<callParticipants, dbCalls, callFeed>>
       ELSE IF ExistingCallsFound(callOp[u].existingCalls)
       THEN /\ callToast' = [callToast EXCEPT ![u] =
                    "A call is already active or ringing in this conversation."]
            /\ callOp' = [callOp EXCEPT ![u] = NoCallOp]
            /\ UNCHANGED <<callParticipants, dbCalls, callFeed>>
       ELSE IF fails
       THEN /\ callOp' = [callOp EXCEPT ![u] =
                    [@ EXCEPT !.stage = "inserted", !.error = TRUE]]
            /\ UNCHANGED <<callParticipants, dbCalls, callFeed, callToast>>
       ELSE LET data == [id |-> Cardinality(dbCalls) + 1, caller_id |-> u,
                         status |-> "ringing"]
            IN  /\ dbCalls' = dbCalls \cup {data}
                /\ callFeed' = Broadcast(callFeed, "INSERT", data)
                /\ callOp' = [callOp EXCEPT ![u] =
                        [@ EXCEPT !.stage = "inserted", !.call = data]]
                /\ UNCHANGED callToast
    /\ UNCHANGED <<callParticipants, callNotices, callRequests, activeCall, incomingCall, lookups>>
    /\ UNCHANGED outsideCall

\* startCall after the insert (171-178)
StartCallDone(u) ==
    /\ callOp[u].kind = "start"
    /\ callOp[u].stage = "inserted"
    /\ callOp' = [callOp EXCEPT ![u] = NoCallOp]
    /\ IF callOp[u].error
       THEN /\ callToast' = [callToast EXCEPT ![u] = "Failed to start call."]
            /\ UNCHANGED activeCall
       ELSE /\ activeCall' = [activeCall EXCEPT ![u] = callOp[u].call]
            /\ callToast' = [callToast EXCEPT ![u] =
                    "Call started, ringing participants..."]
    /\ UNCHANGED <<callParticipants, callNotices, callRequests, dbCalls, incomingCall, callFeed, lookups>>
    /\ UNCHANGED outsideCall

\* .update({ status }).eq('id', call.id).eq('conversation_id', ...): the row with
\* that id gets the status, whatever its status was (184-188, 204-208, 223-227)
UpdateStatus(table, id, status) ==
    {IF r.id = id THEN [r EXCEPT !.status = status] ELSE r : r \in table}

\* the call the buttons of CallUI act on (CallUI.tsx 50)
DialogCall(u) == IF activeCall[u] # NoCall THEN activeCall[u] ELSE incomingCall[u]

\* a button of CallUI calls acceptCall, declineCall or endCall with DialogCall;
\* the step runs up to the execution of the update by the backend
CallWrite(u, kind, status, fails) ==
    /\ callOp[u] = NoCallOp
    /\ callRequests < MaxCallRequests
    /\ callRequests' = callRequests + 1
    /\ LET call == DialogCall(u)
       IN  /\ callOp' = [callOp EXCEPT ![u] =
                   [NoCallOp EXCEPT !.kind = kind, !.stage = "answered",
                                    !.call = call, !.error = fails]]
           /\ IF fails
              THEN UNCHANGED <<callParticipants, dbCalls, callFeed>>
              ELSE /\ dbCalls' = UpdateStatus(dbCalls, call.id, status)
                   /\ callFeed' = Broadcast(callFeed, "UPDATE",
                                      [call EXCEPT !.status = status])
    /\ UNCHANGED <<callParticipants, callNotices, activeCall, incomingCall, lookups, callToast>>
    /\ UNCHANGED outsideCall

\* Accept button (CallUI.tsx 161-169, shown when incomingCall is set), 181-188
acceptCall(u, fails) ==
    /\ incomingCall[u] # NoCall
    /\ CallWrite(u, "accept", "active", fails)

\* Decline button (CallUI.tsx 170-176), 201-208
declineCall(u, fails) ==
    /\ incomingCall[u] # NoCall
    /\ CallWrite(u, "decline", "declined", fails)

\* End button (CallUI.tsx 196-202, shown when incomingCall is not set), 219-227
endCall(u, fails) ==
    /\ incomingCall[u] = NoCall
    /\ activeCall[u] # NoCall
    /\ CallWrite(u, "end", "ended", fails)

\* a failure path that drops the call the client holds
ActiveClearedOnFailure(u) == [activeCall EXCEPT ![u] = NoCall]

\* activeCall after the error branch of acceptCall, declineCall and endCall
\* (190-193, 210-213, 229-232): showError and return, no setter is called
ActiveAfterFailedWrite(u) == activeCall

\* acceptCall, declineCall and endCall after their await (190-198, 210-216, 229-236)
CallWriteDone(u) ==
    /\ callOp[u].kind \in {"accept", "decline", "end"}
    /\ callOp[u].stage = "answered"
    /\ callOp' = [callOp EXCEPT ![u] = NoCallOp]
    /\ LET call == callOp[u].call
           kind == callOp[u].kind
       IN  IF callOp[u].error
           THEN /\ callToast' = [callToast EXCEPT ![u] =
                        CASE kind = "accept" -> "Failed to accept call."
                          [] kind = "decline" -> "Failed to decline call."
                          [] OTHER -> "Failed to end call."]
                /\ activeCall' = ActiveAfterFailedWrite(u)
                /\ UNCHANGED <<incomingCall, callNotices>>
           ELSE CASE kind = "accept" ->
                      /\ activeCall' = [activeCall EXCEPT ![u] =
                              [call EXCEPT !.status = "active"]]
                      /\ incomingCall' = [incomingCall EXCEPT ![u] = NoCall]
                      /\ callToast' = [callToast EXCEPT ![u] = "Call accepted!"]
                      /\ UNCHANGED callNotices
                  [] kind = "decline" ->
                      /\ incomingCall' = [incomingCall EXCEPT ![u] = NoCall]
                      /\ callToast' = [callToast EXCEPT ![u] = "Call declined."]
                      /\ callNotices' = [callNotices EXCEPT ![u] =
                              Append(@, [id |-> call.id, text |-> "Call declined."])]
                      /\ UNCHANGED activeCall
                  [] OTHER ->
                      /\ activeCall' = [activeCall EXCEPT ![u] = NoCall]
                      /\ incomingCall' = [incomingCall EXCEPT ![u] = NoCall]
                      /\ callToast' = [callToast EXCEPT ![u] = "Call ended."]
                      /\ callNotices' = [callNotices EXCEPT ![u] =
                              Append(@, [id |-> call.id, text |-> "Call ended."])]
    /\ UNCHANGED <<callParticipants, callRequests, dbCalls, callFeed, lookups>>
    /\ UNCHANGED outsideCall

\* the INSERT handler (56-79): a call of another user starts checkParticipant
OnCallInsert(u) ==
    /\ callFeed[u] # <<>>
    /\ Head(callFeed[u]).eventType = "INSERT"
    /\ callFeed' = [callFeed EXCEPT ![u] = Tail(@)]
    /\ LET newCall == Head(callFeed[u]).new
       IN  lookups' = IF newCall.caller_id # u
                      THEN lookups \cup {[client |-> u, call |-> newCall,
                                          stage |-> "sent", error |-> FALSE,
                                          data |-> FALSE]}
                      ELSE lookups
    /\ UNCHANGED <<callParticipants, callNotices, callRequests, dbCalls, activeCall, incomingCall, callOp, callToast>>
    /\ UNCHANGED outsideCall

\* a lookup that finds a row for every user
ParticipantRowAssumed(user) == TRUE

\* conversation_participants has a row (conversation, user) (63-67)
ParticipantRowExists(user) == user \in callParticipants

\* the backend answers checkParticipant: an error other than PGRST116, or the
\* row, or no row (PGRST116, data null)
CheckParticipantQuery(l, fails) ==
    /\ l \in lookups
    /\ l.stage = "sent"
    /\ lookups' = (lookups \ {l}) \cup
            {[l EXCEPT !.stage = "answered", !.error = fails,
                       !.data = ~fails /\ ParticipantRowExists(l.client)]}
    /\ UNCHANGED <<callParticipants, callNotices, callRequests, dbCalls, activeCall, incomingCall, callFeed, callOp, callToast>>
    /\ UNCHANGED outsideCall

\* checkParticipant after its await (69-75)
CheckParticipantDone(l) ==
    /\ l \in lookups
    /\ l.stage = "answered"
    /\ lookups' = lookups \ {l}
    /\ IF ~l.error /\ l.data
       THEN /\ incomingCall' = [incomingCall EXCEPT ![l.client] = l.call]
            /\ callToast' = [callToast EXCEPT ![l.client] = "Incoming call"]
       ELSE UNCHANGED <<incomingCall, callToast>>
    /\ UNCHANGED <<callParticipants, callNotices, callRequests, dbCalls, activeCall, callFeed, callOp>>
    /\ UNCHANGED outsideCall

\* activeCall after the UPDATE handler (87-89, 94-95, 102-104); the handler reads
\* the activeCall of the render that subscribed it
ActiveAfterUpdate(u, updatedCall) ==
    IF updatedCall.status \in {"ended", "declined"}
    THEN IF activeCall[u].id = updatedCall.id THEN NoCall ELSE activeCall[u]
    ELSE IF updatedCall.status = "active" /\ updatedCall.caller_id = u
    THEN updatedCall
    ELSE IF activeCall[u].id = updatedCall.id THEN updatedCall
    ELSE activeCall[u]

\* incomingCall after the UPDATE handler (90-92, 98-99, 105)
IncomingAfterUpdate(u, updatedCall) ==
    IF incomingCall[u].id = updatedCall.id /\ updatedCall.status # "ringing"
    THEN NoCall
    ELSE IF updatedCall.status = "active" /\ updatedCall.caller_id = u
    THEN NoCall
    ELSE incomingCall[u]

\* the toasts of the UPDATE handler (96, 100); the later one stays on screen
ToastAfterUpdate(u, updatedCall) ==
    IF updatedCall.status \in {"ended", "declined"}
    THEN IF incomingCall[u].id = updatedCall.id THEN "Call declined or missed."
         ELSE IF activeCall[u].id = updatedCall.id THEN "Call ended."
         ELSE callToast[u]
    ELSE callToast[u]

\* the toasts the UPDATE handler raises for a call that ended or was declined:
\* showSuccess("Call ended.") when activeCall matches (94-97), then
\* showError("Call declined or missed.") when incomingCall matches (98-101)
NoticesOfUpdate(u, updatedCall) ==
    IF updatedCall.status \in {"ended", "declined"}
    THEN (IF activeCall[u].id = updatedCall.id
          THEN <<[id |-> updatedCall.id, text |-> "Call ended."]>> ELSE <<>>)
         \o (IF incomingCall[u].id = updatedCall.id
             THEN <<[id |-> updatedCall.id, text |-> "Call declined or missed."]>>
             ELSE <<>>)
    ELSE <<>>

\* the UPDATE handler (84-107)
OnCallUpdate(u) ==
    /\ callFeed[u] # <<>>
    /\ Head(callFeed[u]).eventType = "UPDATE"
    /\ callFeed' = [callFeed EXCEPT ![u] = Tail(@)]
    /\ LET updatedCall == Head(callFeed[u]).new
       IN  /\ activeCall' = [activeCall EXCEPT ![u] = ActiveAfterUpdate(u, updatedCall)]
           /\ incomingCall' = [incomingCall EXCEPT ![u] =
                                   IncomingAfterUpdate(u, updatedCall)]
           /\ callToast' = [callToast EXCEPT ![u] = ToastAfterUpdate(u, updatedCall)]
           /\ callNotices' = [callNotices EXCEPT ![u] =
                                  @ \o NoticesOfUpdate(u, updatedCall)]
    /\ UNCHANGED <<callParticipants, callRequests, dbCalls, callOp, lookups>>
    /\ UNCHANGED outsideCall

NextCall ==
    \/ \E u \in CallClients : StartCall(u)
    \/ \E u \in CallClients, fails \in BOOLEAN : StartCallPreCheck(u, fails)
    \/ \E u \in CallClients, fails \in BOOLEAN : StartCallInsert(u, fails)
    \/ \E u \in CallClients : StartCallDone(u)
    \/ \E u \in CallClients, fails \in BOOLEAN : acceptCall(u, fails)
    \/ \E u \in CallClients, fails \in BOOLEAN : declineCall(u, fails)
    \/ \E u \in CallClients, fails \in BOOLEAN : endCall(u, fails)
    \/ \E u \in CallClients : CallWriteDone(u)
    \/ \E u \in CallClients : OnCallInsert(u)
    \/ \E l \in lookups, fails \in BOOLEAN : CheckParticipantQuery(l, fails)
    \/ \E l \in lookups : CheckParticipantDone(l)
    \/ \E u \in CallClients : OnCallUpdate(u)

SpecCall == InitCall /\ [][NextCall]_vars

AlreadyRinging == "A call is already active or ringing in this conversation."

\* C6: a startCall whose pre-check is answered while the conversation has a
\* ringing or active call is rejected: the pre-check reports that call, and
\* startCall then shows the error, creates no call row and leaves the
\* caller's activeCall as it was.
C6_StartCallRejected ==
    [][\A u \in CallClients :
        /\ ( /\ callOp[u].kind = "start" /\ callOp[u].stage = "sent"
             /\ callOp'[u].stage = "checked" /\ ~callOp'[u].error
             /\ \E r \in dbCalls : r.status \in NonTerminal )
              => callOp'[u].existingCalls # {}
        /\ ( /\ callOp[u].kind = "start" /\ callOp[u].stage = "checked"
             /\ ~callOp[u].error /\ callOp[u].existingCalls # {}
             /\ callOp'[u] # callOp[u] )
              => /\ callToast'[u] = AlreadyRinging
                 /\ dbCalls' = dbCalls
                 /\ activeCall'[u] = activeCall[u]
                 /\ callOp'[u] = NoCallOp
      ]_vars

\* a startCall was rejected while a call was ringing or active
C6_Witness ==
    \E u \in CallClients :
        /\ callToast[u] = AlreadyRinging
        /\ activeCall[u] = NoCall
        /\ Cardinality(dbCalls) = 1

NonTerminalCalls == {r \in dbCalls : r.status \in NonTerminal}

\* C7 as claimed: the conversation has at most one call in status ringing or
\* active, in every reachable state, concurrent startCalls included.
C7_AtMostOneNonTerminal == Cardinality(NonTerminalCalls) <= 1

\* C7 amended: the pre-check of a startCall reports exactly the ringing and
\* active calls of the moment it is answered, and a call row is created, in
\* status ringing, only by a startCall whose pre-check reported none.
C7_CreatedOnlyAfterEmptyPreCheck ==
    [][/\ \A u \in CallClients :
            ( /\ callOp[u].kind = "start" /\ callOp[u].stage = "sent"
              /\ callOp'[u].stage = "checked" /\ ~callOp'[u].error )
                => callOp'[u].existingCalls = {r.id : r \in NonTerminalCalls}
       /\ \A r \in dbCalls' :
            r.id \notin {x.id : x \in dbCalls}
                => /\ r.status = "ringing"
                   /\ callOp[r.caller_id].kind = "start"
                   /\ callOp[r.caller_id].stage = "checked"
                   /\ ~callOp[r.caller_id].error
                   /\ callOp[r.caller_id].existingCalls = {}
      ]_vars

\* two startCalls were both let through: two calls ring at once
C7_Witness ==
    /\ Cardinality({r \in dbCalls : r.status = "ringing"}) = 2
    /\ \A u \in CallClients : callOp[u] = NoCallOp

AllowedTransitions ==
    {<<"ringing", "active">>, <<"ringing", "declined">>,
     <<"ringing", "ended">>, <<"active", "ended">>}

\* C8: a call is created ringing; its status changes only along ringing -> active,
\* ringing -> declined, ringing -> ended, active -> ended; an ended or declined
\* call never changes status again, whichever client writes.
C8_StatusTransitions ==
    [][\A r2 \in dbCalls' :
        IF \E r \in dbCalls : r.id = r2.id
        THEN \A r \in dbCalls :
                r.id = r2.id => \/ r2.status = r.status
                                \/ <<r.status, r2.status>> \in AllowedTransitions
        ELSE r2.status = "ringing"
      ]_vars

\* C9: the incomingCall of a client is a call of another user, and the client's
\* user is a participant of the conversation of the call.
C9_IncomingOnlyForOtherParticipants ==
    \A u \in CallClients :
        incomingCall[u] # NoCall
            => /\ incomingCall[u].caller_id # u
               /\ u \in callParticipants

\* a participant is prompted with the call of the other one, and nothing is
\* left to process
C9_Witness ==
    /\ incomingCall["u2"] # NoCall
    /\ incomingCall["u2"].caller_id = "u1"
    /\ lookups = {}
    /\ \A u \in CallClients : callFeed[u] = <<>>

CallQuiescent ==
    /\ \A u \in CallClients : callFeed[u] = <<>> /\ callOp[u] = NoCallOp
    /\ lookups = {}

StatusInDb(id) == (CHOOSE r \in dbCalls : r.id = id).status

\* C10: once every notification, participant lookup and request has been
\* processed, no client holds as activeCall or incomingCall a call that is
\* ended or declined.
C10_TerminatedCallCleared ==
    CallQuiescent
        => \A u \in CallClients :
              \A call \in {activeCall[u], incomingCall[u]} \ {NoCall} :
                  StatusInDb(call.id) \notin {"ended", "declined"}

NoticesFor(u, id) == {i \in 1..Len(callNotices[u]) : callNotices[u][i].id = id}

\* C11: a client raises at most one termination notification for one call,
\* whether the update notification of its own endCall or declineCall is
\* handled before or after the write completes.
C11_OneTerminationNotice ==
    \A u \in CallClients : \A r \in dbCalls : Cardinality(NoticesFor(u, r.id)) <= 1

CallErrorToasts ==
    {"Failed to check for existing calls.", "Failed to start call.",
     "Failed to accept call.", "Failed to decline call.", "Failed to end call."}

\* C22: when the pre-check of startCall or the write of startCall, acceptCall,
\* declineCall or endCall fails, the client shows an error and its activeCall
\* and incomingCall stay as they were.
C22_FailedWriteKeepsCalls ==
    [][\A u \in CallClients :
          (/\ callOp[u].error
           /\ \/ \E fails \in BOOLEAN : StartCallInsert(u, fails)
              \/ StartCallDone(u)
              \/ CallWriteDone(u))
          => /\ callToast'[u] \in CallErrorToasts
             /\ activeCall' = activeCall
             /\ incomingCall' = incomingCall]_vars

\* a client whose endCall failed still holds its call
C22_Witness ==
    \E u \in CallClients :
        /\ callToast[u] = "Failed to end call."
        /\ activeCall[u] # NoCall
        /\ callOp[u] = NoCallOp

\* C29: the Accept and Decline buttons of the call dialog act on the incoming
\* call, also when the client holds an activeCall besides it.
C29_AcceptDeclineOnIncomingCall ==
    [][\A u \in CallClients :
          (\E fails \in BOOLEAN : acceptCall(u, fails) \/ declineCall(u, fails))
              => callOp'[u].call = incomingCall[u]]_vars

-----------------------------------------------------------------------------
(* The message synchronizer while the user moves between conversations:     *)
(* either the fetch and subscription effects of ChatMessageArea             *)
(* (ChatMessageArea.tsx 77-152) or the hook useChatMessages                 *)
(* (use-chat-messages.ts 31-141). The parent renders it without a key, so   *)
(* its state survives a change of conversation.                             *)

MaxOpenFetches == 2
MaxOpenFeed == 2
MaxEffectRuns == 2

\* messages.conversation_id and messages.sender_id of the rows of the pool
ConversationOf(m) == IF m = "m1" THEN "c1" ELSE "c2"
SenderOf(m) == IF m = "m2" THEN Me ELSE "u2"

\* created_at order of the pool
PoolOrder == <<"m1", "m2">>

outsideOpen == <<dbMessages, messages, msgFetch, msgFeed, markPending,
                 lastReceiptError, bubble, typingVars, convVars, callVars,
                 nameVars, newChat, authVars>>

\* a row as ChatMessageArea selects it and as the INSERT payload carries it
AreaRow(m) == [id |-> m, conversation_id |-> ConversationOf(m), sender_id |-> SenderOf(m)]

\* a row as useChatMessages selects it, with its receipts (use-chat-messages.ts 90-98)
HookRow(m) ==
    [id |-> m, conversation_id |-> ConversationOf(m), sender_id |-> SenderOf(m),
     message_receipts |-> {u \in Users : <<m, u>> \in dbReceipts}]

\* .eq('conversation_id', c).order('created_at', { ascending: true })
SelectMessages(c) ==
    LET Stored(m) == store[m] = "stored" /\ ConversationOf(m) = c
        ids == SelectSeq(PoolOrder, Stored)
    IN  [k \in 1..Len(ids) |->
            IF synchronizer = "useChatMessages" THEN HookRow(ids[k]) ELSE AreaRow(ids[k])]

NewFetch(c) ==
    [status |-> "sent", conversation_id |-> c, outcome |-> "none", data |-> <<>>,
     rows |-> {}, code |-> Null]

\* the channels one run of the subscription effect opens (ChatMessageArea.tsx
\* 97-145; use-chat-messages.ts 115-133)
OpenChannels(kind, n, c) ==
    IF kind = "useChatMessages"
    THEN {[sub |-> n, table |-> "messages", event |-> "*", conversation_id |-> c]}
    ELSE {[sub |-> n, table |-> "messages", event |-> "INSERT", conversation_id |-> c],
          [sub |-> n, table |-> "typing_status", event |-> "*", conversation_id |-> c]}

\* a cleanup that leaves the channels open
KeepChannels(open, closing) == open

\* the cleanup of the subscription effect: supabase.removeChannel of each channel
\* the run opened (ChatMessageArea.tsx 147-151; use-chat-messages.ts 135-137)
RemoveChannels(open, closing) == open \ closing

\* the notifications still to be dispatched once the channels in `open` remain
StillSubscribed(feed, open) ==
    LET Open(n) == \E ch \in open : ch.sub = n.sub
    IN  SelectSeq(feed, Open)

InitOpen ==
    /\ dbMessages = {}
    /\ dbReceipts = {}
    /\ messages = <<>>
    /\ msgFetch = <<>>
    /\ msgFeed = <<>>
    /\ markPending = <<>>
    /\ lastReceiptError = Null
    /\ toast = [u \in Users |-> NoToast]
    /\ BubbleIdle
    /\ TypingIdle
    /\ ConvIdle
    /\ CallIdle
    /\ NameVarsIdle
    /\ NewChatIdle
    /\ AuthIdle
    /\ synchronizer \in {"ChatMessageArea", "useChatMessages"}
    /\ mounted = TRUE
    /\ openConversationId = "c1"
    /\ store = [m \in MessagePool |-> IF m = "m1" THEN "stored" ELSE "absent"]
    /\ localMessages = <<>>
    \* useState(true) in the hook; ChatMessageArea has no such flag
    /\ isLoadingMessages = (synchronizer = "useChatMessages")
    \* the mount effects have called fetchMessages and subscribed
    /\ openFetch = <<NewFetch("c1")>>
    /\ subscriptions = OpenChannels(synchronizer, 1, "c1")
    /\ openFeed = <<>>
    /\ handled = [e \in TableChanges |-> 0]
    /\ effectRuns = 1

\* the backend answers the select of fetchMessages with rows or an error, or
\* the awaited promise rejects
OpenFetchQuery(i, outcome) ==
    /\ i \in 1..Len(openFetch)
    /\ openFetch[i].status = "sent"
    /\ openFetch' = [openFetch EXCEPT ![i] =
            [@ EXCEPT !.status = "answered", !.outcome = outcome,
                      !.data = IF outcome = "data"
                               THEN SelectMessages(openFetch[i].conversation_id)
                               ELSE <<>>]]
    /\ UNCHANGED <<dbReceipts, toast, synchronizer, mounted, openConversationId, store,
                   localMessages, isLoadingMessages, subscriptions, openFeed, handled,
                   effectRuns>>
    /\ UNCHANGED outsideOpen

\* a state setter called after the component is gone changes nothing
SetState(value, current) == IF mounted THEN value ELSE current

\* fetchMessages of ChatMessageArea after its await (ChatMessageArea.tsx 85-90)
AreaFetchLoaded(i) ==
    /\ synchronizer = "ChatMessageArea"
    /\ i \in 1..Len(openFetch)
    /\ openFetch[i].status = "answered"
    /\ openFetch' = RemoveAt(openFetch, i)
    /\ IF openFetch[i].outcome = "data"
       THEN /\ localMessages' = SetState(openFetch[i].data, localMessages)
            /\ UNCHANGED toast
       ELSE IF openFetch[i].outcome = "error"
       THEN /\ toast' = [toast EXCEPT ![Me] = "Failed to load messages."]
            /\ UNCHANGED localMessages
       ELSE UNCHANGED <<localMessages, toast>>
    /\ UNCHANGED <<dbReceipts, synchronizer, mounted, openConversationId, store,
                   isLoadingMessages, subscriptions, openFeed, handled, effectRuns>>
    /\ UNCHANGED outsideOpen

\* fetchMessages of the hook after its first await (use-chat-messages.ts 85-109),
\* up to the await of markMessagesAsSeen; a rejected promise ends the call there
HookFetchLoaded(i) ==
    /\ synchronizer = "useChatMessages"
    /\ i \in 1..Len(openFetch)
    /\ openFetch[i].status = "answered"
    /\ LET unseen == UnseenMessageIds(openFetch[i].data, Me)
       IN  IF openFetch[i].outcome = "rejected"
           THEN /\ openFetch' = RemoveAt(openFetch, i)
                /\ UNCHANGED <<localMessages, isLoadingMessages, toast>>
           ELSE IF openFetch[i].outcome = "error"
           THEN /\ openFetch' = RemoveAt(openFetch, i)
                /\ toast' = [toast EXCEPT ![Me] = "Failed to load messages."]
                /\ localMessages' = SetState(<<>>, localMessages)
                /\ isLoadingMessages' = SetState(FALSE, isLoadingMessages)
           ELSE /\ localMessages' = SetState(openFetch[i].data, localMessages)
                /\ UNCHANGED toast
                /\ IF unseen = {}
                   THEN /\ openFetch' = RemoveAt(openFetch, i)
                        /\ isLoadingMessages' = SetState(FALSE, isLoadingMessages)
                   ELSE /\ openFetch' = [openFetch EXCEPT ![i] =
                               [@ EXCEPT !.status = "marking",
                                         !.rows = ReceiptsToInsert(unseen, Me)]]
                        /\ UNCHANGED isLoadingMessages
    /\ UNCHANGED <<dbReceipts, synchronizer, mounted, openConversationId, store,
                   subscriptions, openFeed, handled, effectRuns>>
    /\ UNCHANGED outsideOpen

\* the backend runs the insert of markMessagesAsSeen (use-chat-messages.ts 43-46)
OpenMarkInsert(i, fails) ==
    /\ i \in 1..Len(openFetch)
    /\ openFetch[i].status = "marking"
    /\ LET r == InsertReceipts(dbReceipts, openFetch[i].rows)
       IN  /\ dbReceipts' = IF fails THEN dbReceipts ELSE r.table
           /\ openFetch' = [openFetch EXCEPT ![i] =
                   [@ EXCEPT !.status = "marked",
                             !.code = IF fails THEN "other" ELSE r.code]]
    /\ UNCHANGED <<toast, synchronizer, mounted, openConversationId, store, localMessages,
                   isLoadingMessages, subscriptions, openFeed, handled, effectRuns>>
    /\ UNCHANGED outsideOpen

\* fetchMessages of the hook after markMessagesAsSeen returned (107-109)
HookFetchFinished(i) ==
    /\ i \in 1..Len(openFetch)
    /\ openFetch[i].status = "marked"
    /\ openFetch' = RemoveAt(openFetch, i)
    /\ isLoadingMessages' = SetState(FALSE, isLoadingMessages)
    /\ UNCHANGED <<dbReceipts, toast, synchronizer, mounted, openConversationId, store,
                   localMessages, subscriptions, openFeed, handled, effectRuns>>
    /\ UNCHANGED outsideOpen

\* the notifications of one table change: one for each open channel on table
\* messages whose conversation filter and event filter match
RECURSIVE Deliveries(_, _, _)
Deliveries(open, m, eventType) ==
    LET matching == {ch \in open :
                        /\ ch.table = "messages"
                        /\ ch.conversation_id = ConversationOf(m)
                        /\ ch.event \in {"*", eventType}}
    IN  IF matching = {} THEN <<>>
        ELSE LET ch == CHOOSE x \in matching : \A y \in matching : x.sub <= y.sub
             IN  <<[sub |-> ch.sub, eventType |-> eventType, id |-> m,
                    conversation_id |-> ch.conversation_id]>>
                 \o Deliveries(open \ {ch}, m, eventType)

\* a participant's message m is stored while the synchronizer is mounted
InsertMessage(m) ==
    /\ mounted
    /\ store[m] = "absent"
    /\ Len(openFeed) + Len(Deliveries(subscriptions, m, "INSERT")) <= MaxOpenFeed
    /\ store' = [store EXCEPT ![m] = "stored"]
    /\ openFeed' = openFeed \o Deliveries(subscriptions, m, "INSERT")
    /\ UNCHANGED <<dbReceipts, toast, synchronizer, mounted, openConversationId,
                   localMessages, isLoadingMessages, openFetch, subscriptions, handled,
                   effectRuns>>
    /\ UNCHANGED outsideOpen

\* its sender deletes message m while the synchronizer is mounted
DeleteMessage(m) ==
    /\ mounted
    /\ store[m] = "stored"
    /\ Len(openFeed) + Len(Deliveries(subscriptions, m, "DELETE")) <= MaxOpenFeed
    /\ store' = [store EXCEPT ![m] = "deleted"]
    /\ openFeed' = openFeed \o Deliveries(subscriptions, m, "DELETE")
    /\ UNCHANGED <<dbReceipts, toast, synchronizer, mounted, openConversationId,
                   localMessages, isLoadingMessages, openFetch, subscriptions, handled,
                   effectRuns>>
    /\ UNCHANGED outsideOpen

\* the messages handler of ChatMessageArea (ChatMessageArea.tsx 102-106)
OnAreaInsert ==
    /\ synchronizer = "ChatMessageArea"
    /\ openFeed # <<>>
    /\ openFeed' = Tail(openFeed)
    /\ handled' = [handled EXCEPT ![<<Head(openFeed).id, Head(openFeed).eventType>>] = @ + 1]
    /\ localMessages' = Append(localMessages, AreaRow(Head(openFeed).id))
    /\ UNCHANGED <<dbReceipts, toast, synchronizer, mounted, openConversationId, store,
                   isLoadingMessages, openFetch, subscriptions, effectRuns>>
    /\ UNCHANGED outsideOpen

\* the messages handler of the hook (use-chat-messages.ts 120-123): fetchMessages()
\* of the run of the effect that subscribed, which sets the flag (59)
OnHookChange ==
    /\ synchronizer = "useChatMessages"
    /\ openFeed # <<>>
    /\ Len(openFetch) < MaxOpenFetches
    /\ openFeed' = Tail(openFeed)
    /\ handled' = [handled EXCEPT ![<<Head(openFeed).id, Head(openFeed).eventType>>] = @ + 1]
    /\ openFetch' = Append(openFetch, NewFetch(Head(openFeed).conversation_id))
    /\ isLoadingMessages' = TRUE
    /\ UNCHANGED <<dbReceipts, toast, synchronizer, mounted, openConversationId, store,
                   localMessages, subscriptions, effectRuns>>
    /\ UNCHANGED outsideOpen

\* the parent renders the synchronizer with conversation c: the cleanup of the
\* subscription effect runs, then the fetch and subscription effects run for c
\* (ChatMessageArea.tsx 77-93, 96-152; use-chat-messages.ts 112-138)
SwitchConversation(c) ==
    /\ mounted
    /\ c # openConversationId
    /\ effectRuns < MaxEffectRuns
    /\ Len(openFetch) < MaxOpenFetches
    /\ openConversationId' = c
    /\ effectRuns' = effectRuns + 1
    /\ subscriptions' = RemoveChannels(subscriptions, subscriptions)
                            \cup OpenChannels(synchronizer, effectRuns + 1, c)
    /\ openFeed' = StillSubscribed(openFeed, RemoveChannels(subscriptions, subscriptions))
    /\ openFetch' = Append(openFetch, NewFetch(c))
    /\ isLoadingMessages' = IF synchronizer = "useChatMessages" THEN TRUE
                            ELSE isLoadingMessages
    /\ UNCHANGED <<dbReceipts, toast, synchronizer, mounted, store, localMessages, handled>>
    /\ UNCHANGED outsideOpen

\* the synchronizer unmounts: the cleanup of the subscription effect runs
Unmount ==
    /\ mounted
    /\ mounted' = FALSE
    /\ subscriptions' = RemoveChannels(subscriptions, subscriptions)
    /\ openFeed' = StillSubscribed(openFeed, RemoveChannels(subscriptions, subscriptions))
    /\ UNCHANGED <<dbReceipts, toast, synchronizer, openConversationId, store,
                   localMessages, isLoadingMessages, openFetch, handled, effectRuns>>
    /\ UNCHANGED outsideOpen

NextOpen ==
    \/ \E i \in 1..Len(openFetch), outcome \in {"data", "error", "rejected"} :
          OpenFetchQuery(i, outcome)
    \/ \E i \in 1..Len(openFetch) : AreaFetchLoaded(i)
    \/ \E i \in 1..Len(openFetch) : HookFetchLoaded(i)
    \/ \E i \in 1..Len(openFetch), fails \in BOOLEAN : OpenMarkInsert(i, fails)
    \/ \E i \in 1..Len(openFetch) : HookFetchFinished(i)
    \/ \E m \in MessagePool : InsertMessage(m)
    \/ \E m \in MessagePool : DeleteMessage(m)
    \/ OnAreaInsert
    \/ OnHookChange
    \/ \E c \in {"c1", "c2"} : SwitchConversation(c)
    \/ Unmount

SpecOpen == InitOpen /\ [][NextOpen]_vars

\* C14: every message in the local message list belongs to the conversation
\* that is selected, also when a fetch for the previous conversation answers
\* after the switch (stated for the states in which no fetch for the selected
\* conversation is still in flight, so that the list is the one the
\* synchronizer settled on).
C14_LocalMessagesOfOpenConversation ==
    (/\ mounted
     /\ \A i \in 1..Len(openFetch) : openFetch[i].conversation_id # openConversationId)
        => \A k \in 1..Len(localMessages) :
              localMessages[k].conversation_id = openConversationId

\* C15: whenever no fetchMessages call is in flight, isLoadingMessages is false.
C15_LoadingFlagReleased ==
    (mounted /\ openFetch = <<>>) => isLoadingMessages = FALSE

ChannelOf(ch) == <<ch.table, ch.conversation_id>>

C18_DeletedMessageRemoved ==
    (mounted /\ openFeed = <<>> /\ openFetch = <<>>) =>
        \A k \in 1..Len(localMessages) :
            localMessages[k].conversation_id = openConversationId
                => store[localMessages[k].id] # "deleted"

-----------------------------------------------------------------------------
(* The hook useTypingStatus (unnamed/part_001 178-291): the typist Me, whose *)
(* input handlers call handleTypingChange, and a viewer of the same          *)
(* conversation, whose hook reloads the typing users on every change         *)

Viewer == "u2"

InitStop ==
    /\ MsgIdle
    /\ BubbleIdle
    /\ TypingIdle
    /\ ConvIdle
    /\ CallIdle
    /\ OpenIdle
    /\ NameVarsIdle
    /\ NewChatIdle
    /\ AuthIdle

\* the upsert of updateTypingStatus(isTyping) (part_001 186-195): the row keyed
\* by (conversation_id, user_id) gets last_typed_at = new Date(), whatever
\* isTyping is
UpsertTypingRow(table, u, isTyping) ==
    {r \in table : r.user_id # u} \cup {[user_id |-> u, last_typed_at |-> now]}

TypingChangeOf(table, u) ==
    [eventType |-> IF \E r \in table : r.user_id = u THEN "UPDATE" ELSE "INSERT",
     user_id |-> u, last_typed_at |-> now]

\* handleTypingChange(isTyping) of the typist (part_001 274-285)
HandleTypingChange(isTyping) ==
    /\ Len(typingFeed) < MaxTypingFeed
    /\ dbTyping' = UpsertTypingRow(dbTyping, Me, isTyping)
    /\ typingFeed' = Append(typingFeed, TypingChangeOf(dbTyping, Me))
    /\ typingTimeoutRef' =
          IF isTyping
          THEN {[user_id |-> Me, due |-> now + TYPING_INDICATOR_TIMEOUT_MS]}
          ELSE {}
    /\ UNCHANGED <<now, typingUsers>>
    /\ UNCHANGED outsideTyping

\* the timer handleTypingChange(true) left pending (part_001 281-283):
\* updateTypingStatus(false)
StopTypingTimer ==
    /\ \E t \in typingTimeoutRef : t.due <= now
    /\ Len(typingFeed) < MaxTypingFeed
    /\ dbTyping' = UpsertTypingRow(dbTyping, Me, FALSE)
    /\ typingFeed' = Append(typingFeed, TypingChangeOf(dbTyping, Me))
    /\ typingTimeoutRef' = {}
    /\ UNCHANGED <<now, typingUsers>>
    /\ UNCHANGED outsideTyping

\* fetchTypingUsers of the viewer (part_001 207-238): the rows of the others
\* typed less than the timeout ago
ActiveTypingUsers(table, viewer) ==
    IF \E r \in table : /\ r.user_id # viewer
                        /\ now - r.last_typed_at < TYPING_INDICATOR_TIMEOUT_MS
    THEN <<Me>> ELSE <<>>

\* the typing_status handler of the viewer (part_001 251-254)
OnTypingStatusChange ==
    /\ typingFeed # <<>>
    /\ typingFeed' = Tail(typingFeed)
    /\ typingUsers' = ActiveTypingUsers(dbTyping, Viewer)
    /\ UNCHANGED <<now, dbTyping, typingTimeoutRef>>
    /\ UNCHANGED outsideTyping

\* the interval of the viewer (part_001 266-272)
TypingInterval ==
    /\ typingUsers' = ActiveTypingUsers(dbTyping, Viewer)
    /\ UNCHANGED <<now, dbTyping, typingFeed, typingTimeoutRef>>
    /\ UNCHANGED outsideTyping

NextStop ==
    \/ Tick
    \/ \E isTyping \in BOOLEAN : HandleTypingChange(isTyping)
    \/ StopTypingTimer
    \/ OnTypingStatusChange
    \/ TypingInterval

SpecStop == InitStop /\ [][NextStop]_vars

\* C17: once an explicit "stopped typing" signal is processed, the typist's
\* typing row is absent, and the timer of the typing that went before does not
\* create or refresh it.
C17_StopDeletesTypingRow ==
    [][/\ HandleTypingChange(FALSE) => ~\E r \in dbTyping' : r.user_id = Me
       /\ StopTypingTimer => \A r \in dbTyping' : r \in dbTyping]_vars

-----------------------------------------------------------------------------
(* Creating a direct conversation in NewConversationDialog and naming it in *)
(* the title of ChatMessageArea and in the ConversationItem of ChatSidebar. *)

outsideName == <<msgVars, bubble, typingVars, convVars, callVars, openVars,
                 newChat, authVars>>

\* String.prototype.trim over the texts of the model
RECURSIVE TrimStart(_)
TrimStart(t) == IF t # <<>> /\ Head(t) = " " THEN TrimStart(Tail(t)) ELSE t

RECURSIVE TrimEnd(_)
TrimEnd(t) ==
    IF t # <<>> /\ t[Len(t)] = " " THEN TrimEnd(SubSeq(t, 1, Len(t) - 1)) ELSE t

Trim(t) == TrimEnd(TrimStart(t))

\* `x || ""` on a string | null
OrEmpty(t) == IF t = NullText \/ t = <<>> THEN <<>> ELSE t

\* `${p.first_name || ""} ${p.last_name || ""}`.trim()
TemplateName(p) == Trim(OrEmpty(p.first_name) \o <<" ">> \o OrEmpty(p.last_name))

\* the group names the user may have typed
GroupNames == {<<>>, <<" ">>, <<"g">>}

NewConversationId == "c1"

InitName ==
    /\ MsgIdle
    /\ BubbleIdle
    /\ TypingIdle
    /\ ConvIdle
    /\ CallIdle
    /\ OpenIdle
    /\ NewChatIdle
    /\ AuthIdle
    /\ profiles \in [Users -> [first_name : NameValues, last_name : NameValues]]
    /\ profiles["u3"] = [first_name |-> <<"b">>, last_name |-> NullText]
    /\ groupName \in GroupNames
    /\ createdConversation = NoConversation
    /\ displayNames = [u \in Users |-> NotRendered]

\* handleCreateConversation of currentUser with selectedParticipants; outcome
\* is what the insert into conversation_participants answers
handleCreateConversation(currentUser, selectedParticipants, outcome) ==
    LET isGroupChat == Cardinality(selectedParticipants) > 1 \/ Trim(groupName) # <<>>
        name == IF isGroupChat THEN Trim(groupName) ELSE NullText
    IN
    /\ createdConversation = NoConversation
    /\ selectedParticipants # {}
    /\ ~(isGroupChat /\ Trim(groupName) = <<>>)
    /\ IF outcome = "participantsError"
       THEN /\ createdConversation' = [id |-> NewConversationId, name |-> name,
                                       conversation_participants |-> {}]
            /\ UNCHANGED groupName
       ELSE /\ createdConversation' =
                   [id |-> NewConversationId, name |-> name,
                    conversation_participants |-> {currentUser} \cup selectedParticipants]
            \* handleClose
            /\ groupName' = <<>>
    /\ UNCHANGED <<profiles, displayNames>>
    /\ UNCHANGED outsideName

\* the participants of the conversation that are the current user instead of
\* the others
OwnParticipants(conversation, currentUser) ==
    conversation.conversation_participants \cap {currentUser}

\* conversation_participants.filter(p => p.user_id !== currentUser.id)
OtherParticipants(conversation, currentUser) ==
    conversation.conversation_participants \ {currentUser}

\* getConversationTitle of ChatMessageArea; `other` is the participant find()
\* returns when there is one
getConversationTitle(conversation, currentUser, other) ==
    IF conversation.name # NullText /\ conversation.name # <<>>
    THEN conversation.name
    ELSE LET name == IF other = Null THEN <<>> ELSE TemplateName(profiles[other])
         IN IF name = <<>> THEN <<"C", "h", "a", "t">> ELSE name

\* getDisplayName of ConversationItem; `other` is otherParticipants[0] when
\* otherParticipants is not empty
getDisplayName(conversation, currentUser, other) ==
    IF conversation.name # NullText
    THEN conversation.name
    ELSE IF other # Null
         THEN TemplateName(profiles[other])
         ELSE <<"U", "n", "k", "n", "o", "w", "n", " ", "C", "h", "a", "t">>

\* the client of participant u renders the conversation; with several others
\* the order of conversation_participants decides which one is first
Render(u) ==
    /\ u \in createdConversation.conversation_participants
    /\ displayNames[u] = NotRendered
    /\ LET others == OtherParticipants(createdConversation, u)
       IN \E other \in (IF others = {} THEN {Null} ELSE others) :
             displayNames' = [displayNames EXCEPT ![u] =
                 [title |-> getConversationTitle(createdConversation, u, other),
                  item  |-> getDisplayName(createdConversation, u, other)]]
    /\ UNCHANGED <<profiles, groupName, createdConversation>>
    /\ UNCHANGED outsideName

NextName ==
    \/ \E a \in Users, sel \in SUBSET Users, outcome \in {"created", "participantsError"} :
          a \notin sel /\ handleCreateConversation(a, sel, outcome)
    \/ \E u \in Users : Render(u)

SpecName == InitName /\ [][NextName]_vars

\* the first and last name of a profile that are present, joined by one space
FullName(p) ==
    LET first == IF p.first_name \in {NullText, <<>>, <<" ">>} THEN <<>> ELSE p.first_name
        last  == IF p.last_name \in {NullText, <<>>, <<" ">>} THEN <<>> ELSE p.last_name
    IN IF first = <<>> THEN last
       ELSE IF last = <<>> THEN first
       ELSE first \o <<" ">> \o last

-----------------------------------------------------------------------------
(* Creating a chat from the dialog of ChatSidebar under the ChatApp          *)
(* component of unnamed/part_005 ("fifth"), which reloads the list on every  *)
(* conversations change and keeps the selection in an effect.                *)

NewChatId == "c3"

outsideCreate == <<dbMessages, dbReceipts, messages, msgFetch, msgFeed, markPending,
                   lastReceiptError, bubble, typingVars, callVars, openVars,
                   nameVars, authVars>>

InitCreate ==
    /\ MsgIdle
    /\ BubbleIdle
    /\ TypingIdle
    /\ CallIdle
    /\ OpenIdle
    /\ NameVarsIdle
    /\ AuthIdle
    /\ chatApp = "fifth"
    \* Me takes part in none, one or two conversations, with or without messages
    /\ \E ids \in SUBSET ConversationIds :
          \E t \in [ids -> {NoTimestamp, 1, 2}] :
             dbConversations = {[id |-> c, latest_message_created_at |-> t[c]] : c \in ids}
    /\ conversations = <<>>
    /\ selectedConversationId = Null
    \* initializeChat has called fetchAndSetConversations (part_005 152-160)
    /\ isLoadingConversations = TRUE
    /\ convFetch = <<[status |-> "sent", initial |-> TRUE]>>
    /\ convFeed = <<>>
    /\ convDelete = NoDelete
    /\ newChat = NoNewChat

\* the effect of part_005 224-232, run after a render in which conversations
\* or selectedConversationId changed, until it changes nothing
SelectionEffect(list, selected) ==
    IF list # <<>> /\ (selected = Null \/ selected \notin Ids(list))
    THEN list[1].id
    ELSE IF list = <<>> THEN Null ELSE selected

\* the backend answers the select of fetchAndSetConversations (part_005 65-85)
CreateFetchQuery(i, fails) ==
    /\ i \in 1..Len(convFetch)
    /\ convFetch[i].status = "sent"
    /\ convFetch' = [convFetch EXCEPT ![i] =
            [status |-> "answered", initial |-> @.initial, error |-> fails,
             data |-> IF fails THEN <<>> ELSE SortByLatestDesc(dbConversations)]]
    /\ UNCHANGED <<chatApp, dbConversations, conversations, selectedConversationId,
                   isLoadingConversations, convFeed, convDelete, newChat, toast>>
    /\ UNCHANGED outsideCreate

\* fetchAndSetConversations after its awaits (part_005 87-141), the end of
\* initializeChat when it is the initial call, and the selection effect
CreateFetchDone(i) ==
    /\ i \in 1..Len(convFetch)
    /\ convFetch[i].status = "answered"
    /\ convFetch' = RemoveAt(convFetch, i)
    /\ isLoadingConversations' =
          IF convFetch[i].initial THEN FALSE ELSE isLoadingConversations
    /\ conversations' = convFetch[i].data
    /\ selectedConversationId' = SelectionEffect(convFetch[i].data, selectedConversationId)
    /\ toast' = IF convFetch[i].error
                THEN [toast EXCEPT ![Me] = "Failed to load conversations"]
                ELSE toast
    /\ UNCHANGED <<chatApp, dbConversations, convFeed, convDelete, newChat>>
    /\ UNCHANGED outsideCreate

\* handleCreateNewChat up to its first await (ChatSidebar 210-225): the
\* backend stores the conversation row and reports the insert
CreateInsertConversation ==
    /\ newChat = NoNewChat
    /\ ~isLoadingConversations
    /\ newChat' = [stage |-> "conversation", id |-> NewChatId]
    /\ convFeed' = Append(convFeed, [eventType |-> "INSERT", id |-> NewChatId])
    /\ UNCHANGED <<chatApp, dbConversations, conversations, selectedConversationId,
                   isLoadingConversations, convFetch, convDelete, toast>>
    /\ UNCHANGED outsideCreate

\* the backend answers the insert into conversation_participants
\* (ChatSidebar 236-243): with the rows stored, Me takes part in the new
\* conversation
CreateInsertParticipants(fails) ==
    /\ newChat.stage = "conversation"
    /\ newChat' = [newChat EXCEPT !.stage = IF fails THEN "participantsError"
                                            ELSE "participants"]
    /\ dbConversations' =
          IF fails THEN dbConversations
          ELSE dbConversations \cup
                  {[id |-> newChat.id, latest_message_created_at |-> NoTimestamp]}
    /\ UNCHANGED <<chatApp, conversations, selectedConversationId,
                   isLoadingConversations, convFetch, convFeed, convDelete, toast>>
    /\ UNCHANGED outsideCreate

\* handleCreateNewChat after its awaits (ChatSidebar 241-260):
\* onSelectConversation is setSelectedConversationId (part_005 323), and the
\* selection effect follows the render
CreateDone ==
    /\ newChat.stage \in {"participants", "participantsError"}
    /\ IF newChat.stage = "participantsError"
       THEN /\ toast' = [toast EXCEPT ![Me] = "Failed to create chat"]
            /\ newChat' = [newChat EXCEPT !.stage = "failed"]
            /\ UNCHANGED selectedConversationId
       ELSE /\ toast' = [toast EXCEPT ![Me] = "New chat created successfully!"]
            /\ newChat' = [newChat EXCEPT !.stage = "created"]
            /\ selectedConversationId' = SelectionEffect(conversations, newChat.id)
    /\ UNCHANGED <<chatApp, dbConversations, conversations, isLoadingConversations,
                   convFetch, convFeed, convDelete>>
    /\ UNCHANGED outsideCreate

\* the handler of channel public:conversations (part_005 176-179)
CreateOnConversationsChange ==
    /\ convFeed # <<>>
    /\ convFeed' = Tail(convFeed)
    /\ convFetch' = Append(convFetch, [status |-> "sent", initial |-> FALSE])
    /\ UNCHANGED <<chatApp, dbConversations, conversations, selectedConversationId,
                   isLoadingConversations, convDelete, newChat, toast>>
    /\ UNCHANGED outsideCreate

NextCreate ==
    \/ \E i \in 1..Len(convFetch), fails \in BOOLEAN : CreateFetchQuery(i, fails)
    \/ \E i \in 1..Len(convFetch) : CreateFetchDone(i)
    \/ CreateInsertConversation
    \/ \E fails \in BOOLEAN : CreateInsertParticipants(fails)
    \/ CreateDone
    \/ CreateOnConversationsChange

SpecCreate == InitCreate /\ [][NextCreate]_vars

\* C25: once a chat was created and the reload and the conversations
\* notification it caused were processed, the new conversation is the
\* selected one.
C25_NewChatStaysSelected ==
    (/\ newChat.stage = "created"
     /\ toast[Me] = "New chat created successfully!"
     /\ convFeed = <<>>
     /\ convFetch = <<>>)
        => selectedConversationId = newChat.id

-----------------------------------------------------------------------------
(* The typing indicator of ChatMessageArea.tsx (first component of the     *)
(* file) across a change of the conversation it is rendered with: the      *)
(* component stays mounted, its effect (96-152) is cleaned up and run again *)

MaxSwitchTicks == 4
MaxSwitchFeed == 1

\* conversation_participants of the two conversations of Me
ParticipantsOf(c) == IF c = "c1" THEN {"u1", "u2"} ELSE {"u1", "u2", "u3"}

outsideSwitch == <<msgVars, bubble, convVars, callVars, synchronizer, mounted, store,
                   localMessages, isLoadingMessages, openFetch, subscriptions,
                   openFeed, handled, effectRuns, nameVars, newChat, authVars>>

InitSwitch ==
    /\ MsgIdle
    /\ BubbleIdle
    /\ TypingIdle
    /\ ConvIdle
    /\ CallIdle
    /\ NameVarsIdle
    /\ NewChatIdle
    /\ AuthIdle
    /\ synchronizer = "none"
    /\ mounted = FALSE
    /\ openConversationId = "c1"
    /\ store = [m \in MessagePool |-> "absent"]
    /\ localMessages = <<>>
    /\ isLoadingMessages = FALSE
    /\ openFetch = <<>>
    /\ subscriptions = {}
    /\ openFeed = <<>>
    /\ handled = [e \in TableChanges |-> 0]
    /\ effectRuns = 0

\* the timers of typingTimeoutRef that were not cleared
LiveTimers == {t \in typingTimeoutRef : t.live}

\* time passes; a timer that is due runs before the clock moves on
SwitchTick ==
    /\ now + TickMs <= MaxSwitchTicks * TickMs
    /\ \A t \in LiveTimers : t.due > now
    /\ now' = now + TickMs
    /\ UNCHANGED <<dbTyping, typingFeed, typingUsers, typingTimeoutRef, openConversationId>>
    /\ UNCHANGED outsideSwitch

\* updateTypingStatus of another participant u in conversation c (156-162);
\* the channel typing:<id> of the displayed conversation reports the change
TypeInConversation(c, u) ==
    /\ u \in ParticipantsOf(c) \ {Me}
    /\ Len(typingFeed) < MaxSwitchFeed
    /\ dbTyping' = dbTyping \cup {[conversation_id |-> c, user_id |-> u]}
    /\ typingFeed' =
          IF c # openConversationId THEN typingFeed
          ELSE Append(typingFeed,
                  [eventType |-> IF [conversation_id |-> c, user_id |-> u] \in dbTyping
                                 THEN "UPDATE" ELSE "INSERT",
                   user_id |-> u])
    /\ UNCHANGED <<now, typingUsers, typingTimeoutRef, openConversationId>>
    /\ UNCHANGED outsideSwitch

\* removeTypingStatus of another participant u in conversation c (164-169)
StopInConversation(c, u) ==
    /\ [conversation_id |-> c, user_id |-> u] \in dbTyping
    /\ Len(typingFeed) < MaxSwitchFeed
    /\ dbTyping' = dbTyping \ {[conversation_id |-> c, user_id |-> u]}
    /\ typingFeed' =
          IF c # openConversationId THEN typingFeed
          ELSE Append(typingFeed, [eventType |-> "DELETE", user_id |-> u])
    /\ UNCHANGED <<now, typingUsers, typingTimeoutRef, openConversationId>>
    /\ UNCHANGED outsideSwitch

\* the typing_status handler (115-143) of the effect that runs for the
\* displayed conversation
SwitchOnTypingChange ==
    /\ typingFeed # <<>>
    /\ typingFeed' = Tail(typingFeed)
    /\ LET record == Head(typingFeed)
           others == {t \in typingTimeoutRef : t.user_id # record.user_id}
       IN  IF record.user_id = Me \/ record.user_id \notin ParticipantsOf(openConversationId)
           THEN UNCHANGED <<typingUsers, typingTimeoutRef>>
           ELSE IF record.eventType = "DELETE"
           THEN /\ typingUsers' = FilterOut(typingUsers, record.user_id)
                /\ typingTimeoutRef' = others
           ELSE /\ typingUsers' =
                      IF record.user_id \in SeqToSet(typingUsers) THEN typingUsers
                      ELSE Append(typingUsers, record.user_id)
                /\ typingTimeoutRef' = others \cup
                      {[user_id |-> record.user_id,
                        due |-> now + TYPING_INDICATOR_TIMEOUT_MS,
                        live |-> TRUE]}
    /\ UNCHANGED <<now, dbTyping, openConversationId>>
    /\ UNCHANGED outsideSwitch

\* the timer callback (137-140)
SwitchTypingTimeout(u) ==
    /\ \E t \in LiveTimers : t.user_id = u /\ t.due <= now
    /\ typingUsers' = FilterOut(typingUsers, u)
    /\ typingTimeoutRef' = {t \in typingTimeoutRef : t.user_id # u}
    /\ UNCHANGED <<now, dbTyping, typingFeed, openConversationId>>
    /\ UNCHANGED outsideSwitch

\* the user selects conversation c: ChatMessageArea is rendered with another
\* conversation prop, the cleanup (147-151) removes the channels and clears
\* every timeout, and the effect subscribes to typing:<c>; typingUsers and the
\* entries of typingTimeoutRef are left as they are
ShowConversation(c) ==
    /\ c # openConversationId
    /\ openConversationId' = c
    /\ typingFeed' = <<>>
    /\ typingTimeoutRef' = {[t EXCEPT !.live = FALSE] : t \in typingTimeoutRef}
    /\ UNCHANGED <<now, dbTyping, typingUsers>>
    /\ UNCHANGED outsideSwitch

NextSwitch ==
    \/ SwitchTick
    \/ \E c \in ConversationIds, u \in Users : TypeInConversation(c, u)
    \/ \E c \in ConversationIds, u \in Users : StopInConversation(c, u)
    \/ SwitchOnTypingChange
    \/ \E u \in Users : SwitchTypingTimeout(u)
    \/ \E c \in ConversationIds : ShowConversation(c)

SpecSwitch == InitSwitch /\ [][NextSwitch]_vars

\* C28: every user in typingUsers had a typing notification handled at most
\* 3000 ms ago (the timeout set for it by the handler is not yet overdue),
\* also after the displayed conversation changed.
C28_TypingUsersExpire ==
    \A u \in SeqToSet(typingUsers) :
        \E t \in typingTimeoutRef : t.user_id = u /\ now <= t.due

-----------------------------------------------------------------------------
(* The session store: useAuth of integrations/supabase/auth.ts, which asks  *)
(* for the current session once and listens to auth state changes.          *)

\* auth state changes the listener has not been called with yet, at one time
MaxAuthFeed == 2

\* the accounts that sign in on this device
Accounts == {"u1", "u2"}

outsideAuth == <<msgVars, bubble, typingVars, convVars, callVars, openVars,
                 nameVars, newChat>>

InitAuth ==
    /\ MsgIdle
    /\ BubbleIdle
    /\ TypingIdle
    /\ ConvIdle
    /\ CallIdle
    /\ OpenIdle
    /\ NameVarsIdle
    /\ NewChatIdle
    \* a session persisted from an earlier visit, or none
    /\ authSession \in {Null} \cup Accounts
    /\ authUser = Null
    /\ authIsLoading = TRUE
    \* the effect has called getSession and registered the listener (16-32)
    /\ authGet = [status |-> "sent", session |-> Null]
    /\ authFeed = <<>>
    /\ lastAuthEvent = Null

\* supabase.auth.getSession() reads the session the auth client holds
GetSessionAnswer ==
    /\ authGet.status = "sent"
    /\ authGet' = [status |-> "answered", session |-> authSession]
    /\ UNCHANGED <<authSession, authUser, authIsLoading, authFeed, lastAuthEvent>>
    /\ UNCHANGED outsideAuth

\* getSession of useAuth after its await (auth.ts 18-23)
GetSessionDone ==
    /\ authGet.status = "answered"
    /\ authUser' = authGet.session
    /\ authIsLoading' = FALSE
    /\ authGet' = [authGet EXCEPT !.status = "done"]
    /\ UNCHANGED <<authSession, authFeed, lastAuthEvent>>
    /\ UNCHANGED outsideAuth

\* account u signs in (CustomAuthForm); the auth client reports SIGNED_IN
SignIn(u) ==
    /\ authSession = Null
    /\ Len(authFeed) < MaxAuthFeed
    /\ authSession' = u
    /\ authFeed' = Append(authFeed, [event |-> "SIGNED_IN", session |-> u])
    /\ UNCHANGED <<authUser, authIsLoading, authGet, lastAuthEvent>>
    /\ UNCHANGED outsideAuth

\* supabase.auth.signOut() (ChatSidebar handleLogout); the auth client reports
\* SIGNED_OUT
SignOut ==
    /\ authSession # Null
    /\ Len(authFeed) < MaxAuthFeed
    /\ authSession' = Null
    /\ authFeed' = Append(authFeed, [event |-> "SIGNED_OUT", session |-> Null])
    /\ UNCHANGED <<authUser, authIsLoading, authGet, lastAuthEvent>>
    /\ UNCHANGED outsideAuth

\* the onAuthStateChange listener (auth.ts 28-32)
OnAuthStateChange ==
    /\ authFeed # <<>>
    /\ authFeed' = Tail(authFeed)
    /\ authUser' = Head(authFeed).session
    /\ authIsLoading' = FALSE
    /\ lastAuthEvent' = Head(authFeed).event
    /\ UNCHANGED <<authSession, authGet>>
    /\ UNCHANGED outsideAuth

NextAuth ==
    \/ GetSessionAnswer
    \/ GetSessionDone
    \/ \E u \in Accounts : SignIn(u)
    \/ SignOut
    \/ OnAuthStateChange

SpecAuth == InitAuth /\ [][NextAuth]_vars

\* C30: when the last auth event the listener handled is a sign-out and nobody
\* signed in since, user is null and isLoading is false, whenever the answer
\* of the initial getSession is applied.
C30_SignedOutStaysSignedOut ==
    (/\ lastAuthEvent = "SIGNED_OUT"
     /\ authSession = Null
     /\ authFeed = <<>>)
        => (authUser = Null /\ ~authIsLoading)

=============================================================================
